---------------------------- MODULE Spec2Model ----------------------------
(* A model of the restaurant backend's AI service (services/aiService.js):  *)
(* the preference matcher getRecommendations, the history-based ranker      *)
(* rankByAI / analyzeCustomerHistory, and the text enrichment client        *)
(* enhanceDescription / answerQuestion.                                     *)
(*                                                                          *)
(* Units.  Prices are in cents (18.99 is 1899).  rating.average is in       *)
(* tenths (4.5 is 45).  Scores are in hundredths (0.3 is 30).  Strings that *)
(* the code inspects character by character (ingredient names, regular      *)
(* expressions, provider message content) are sequences of one-character    *)
(* strings.                                                                 *)
EXTENDS Integers, Sequences, FiniteSets, TLC

VARIABLES
    op,               \* the operation being called
    pc,               \* position of the call inside the operation
    catalog,          \* the MenuItem collection (a set of documents)
    preferences,      \* getRecommendations: argument
    customerHistory,  \* getRecommendations / rankByAI: argument
    candidates,       \* result of the last MenuItem.find; rankByAI: argument `items`
    pass,             \* which find produced candidates: "none", "primary", "fallback"
    ranked,           \* outcome of the rankByAI call, if one was made
    result,           \* value the operation returned to its caller
    apiKey,           \* this.apiKey: TRUE when a credential is configured
    description,      \* enhanceDescription: originalDescription; answerQuestion: question
    requestSent,      \* whether axios.post was called
    menuContext,      \* answerQuestion: what getMenuContext returned
    response,         \* what axios.post produced
    state,            \* enrichment call: the states passed through, in order
    thrown,           \* whether the operation threw to its caller
    route,            \* the route handling the request, "none" for a direct call
    request,          \* req.body of the request
    http,             \* the response the route sent (status 0: none yet)
    analyticsCache,   \* routes/analytics.js: the module-level cache object
    now,              \* Date.now(), in minutes
    orderStore,       \* version of the order data the aggregations read
    reqs,             \* the analytics requests being handled: path, position
    sent,             \* the last response an analytics route sent
    menu,             \* the MenuItem collection behind the order and menu routes
    orders,           \* the Order collection: the stored orders, oldest first
    calls,            \* the requests to the order and menu routes
    previous,         \* what an earlier, identical call of the operation returned
    historyAnalysis,  \* rankByAI: the local historyAnalysis, once derived
    scoredItems       \* rankByAI: the local scoredItems, once mapped

vars == << op, pc, catalog, preferences, customerHistory, candidates, pass,
           ranked, result, apiKey, description, requestSent, menuContext, response,
           state, thrown, route, request, http, analyticsCache, now, orderStore,
           reqs, sent, menu, orders, calls, previous, historyAnalysis,
           scoredItems >>

\* the locals of rankByAI
scoring == << historyAnalysis, scoredItems >>

\* the analytics routes' state
analytics == << analyticsCache, now, orderStore, reqs, sent >>

\* the order and menu routes' state
ordering == << menu, orders, calls >>

\* the state outside the AI routes and the AI service
outsideAI == << analytics, ordering >>

\* the state outside the AI service: the route layer and the other routes
outsideService == << route, request, http, outsideAI, previous >>

-----------------------------------------------------------------------------
(* Bounds of the model.                                                     *)

\* number of filler documents in the large catalogs
MaxBulk == 11
\* most dietary flags one request sets to true
MaxFlags == 2
\* longest allergy list of a request
MaxAllergies == 1
\* longest candidate list handed to rankByAI directly
MaxCand == 3

\* .limit(10) of both finds
Limit == 10

-----------------------------------------------------------------------------
(* Strings                                                                  *)

\* String.prototype.toLowerCase on one character
LowerChar(c) ==
    CASE c = "B" -> "b"
      [] c = "H" -> "h"
      [] c = "K" -> "k"
      [] c = "N" -> "n"
      [] c = "T" -> "t"
      [] OTHER -> c

\* String.prototype.toLowerCase
toLowerCase(s) == [i \in 1..Len(s) |-> LowerChar(s[i])]

\* new RegExp(p, 'i') throws a SyntaxError on an unterminated group
RegExpThrows(p) == \E i \in 1..Len(p) : p[i] = "("

\* new RegExp(p, 'i').test(s) for a pattern of literal letters:
\* a case-insensitive substring match
RegExpTest(p, s) ==
    \E k \in 0..(Len(s) - Len(p)) :
        \A i \in 1..Len(p) : LowerChar(p[i]) = LowerChar(s[k + i])

\* String.prototype.trim (the only whitespace of the model is " ")
RECURSIVE TrimStart(_)
TrimStart(s) ==
    IF s # << >> /\ Head(s) = " " THEN TrimStart(Tail(s)) ELSE s

RECURSIVE TrimEnd(_)
TrimEnd(s) ==
    IF s # << >> /\ s[Len(s)] = " " THEN TrimEnd(SubSeq(s, 1, Len(s) - 1)) ELSE s

trim(s) == TrimEnd(TrimStart(s))

-----------------------------------------------------------------------------
(* Documents of the MenuItem collection                                     *)

DietFlags == {"vegetarian", "vegan", "glutenFree", "dairyFree"}

Ingredient(n, a) == [name |-> n, allergens |-> a]

Brie == Ingredient(<<"B","r","i","e">>, {"dairy"})
Herb == Ingredient(<<"H","e","r","b">>, {})
Hen  == Ingredient(<<"H","e","n">>, {})
Kale == Ingredient(<<"K","a","l","e">>, {})
Nut  == Ingredient(<<"N","u","t">>, {"nuts"})
Tofu == Ingredient(<<"T","o","f","u">>, {"soy"})

\* a document as Mongoose hydrates it: every path of menuItemSchema present.
\* missing names the properties a plain object handed to rankByAI lacks.
MenuItem(i, cat, p, ings, diet, avail, avg, cnt, pop) ==
    [ id |-> i, category |-> cat, price |-> p, ingredients |-> ings,
      dietary |-> [ vegetarian |-> "vegetarian" \in diet,
                    vegan      |-> "vegan" \in diet,
                    glutenFree |-> "glutenFree" \in diet,
                    dairyFree  |-> "dairyFree" \in diet,
                    spicy      |-> "spicy" \in diet ],
      availability |-> avail,
      rating |-> [average |-> avg, count |-> cnt],
      popularity |-> pop,
      missing |-> {} ]

Palette ==
    { MenuItem(1, "main", 1899, <<Brie, Herb>>, {"vegetarian"},
               "available", 45, 10, 5),
      MenuItem(2, "main", 1500, <<Hen>>, {"spicy"},
               "available", 45, 3, 9),
      MenuItem(3, "salad", 1000, <<Kale>>,
               {"vegetarian", "vegan", "glutenFree", "dairyFree"},
               "limited", 50, 2, 1),
      MenuItem(4, "dessert", 2500, <<Nut, Tofu>>,
               {"vegetarian", "vegan", "glutenFree", "dairyFree"},
               "available", 40, 4, 2),
      MenuItem(5, "main", 1000, <<Tofu, Herb>>,
               {"vegetarian", "vegan", "dairyFree", "spicy"},
               "available", 45, 10, 7) }

\* filler documents: available vegetarian sides with varying rating
Filler(k) ==
    MenuItem(10 + k, "side", 400 + 100 * k, <<Herb>>, {"vegetarian"},
             IF k = 3 THEN "unavailable" ELSE "available",
             30 + 5 * (k % 4), k % 2, k % 3)

\* the small catalogs, and two large ones that exceed the limit of a find
Catalogs ==
    (SUBSET Palette)
      \cup { small \cup { Filler(k) : k \in 1..MaxBulk } : small \in { {}, Palette } }

-----------------------------------------------------------------------------
(* Queries: the filter object getRecommendations hands to MenuItem.find     *)

Allergens == {"nuts", "dairy"}

\* mutant: the filter admits the items in limited supply
AvailabilityLimited == "limited"

\* availability: 'available', the condition both filters start from
AvailabilityCondition == "available"

\* if (dietary.<flag>) query['dietary.<flag>'] = true
DietaryCondition(p, flag) == p.dietary[flag]

\* mutant: the price bounds taken as exclusive ($gt, $lt)
PriceConditionExclusive(p) ==
    << [gte |-> p.priceRange.min + 1, lte |-> p.priceRange.max - 1] >>

\* query.price = { $gte: priceRange.min, $lte: priceRange.max }
PriceCondition(p) == << [gte |-> p.priceRange.min, lte |-> p.priceRange.max] >>

\* if (category) query.category = category
CategoryCondition(p) == p.category

\* mutant: 'extra-hot' is not taken for a request for spicy items
SpiceConditionHotOnly(p) ==
    CASE p.spiceLevel = "mild" -> "false"
      [] p.spiceLevel = "hot" -> "true"
      [] OTHER -> "unset"

\* the spice level's condition on dietary.spicy
SpiceCondition(p) ==
    CASE p.spiceLevel = "mild" -> "false"
      [] p.spiceLevel \in {"hot", "extra-hot"} -> "true"
      [] OTHER -> "unset"

\* mutant: the allergy list is not put into the filter
AllergyConditionDropped(p) == {}

\* if (allergies.length > 0) query['ingredients.allergens'] = { $nin: allergies }
AllergyCondition(p) == p.allergies

\* if (ingredients.length > 0) query['ingredients.name'] = { $in: [RegExp...] }
IngredientCondition(p) == p.ingredients

\* the filter built from the preferences.  A dietary field is TRUE when the
\* query carries `dietary.<flag> = true`; spicy is "true"/"false" when the
\* query constrains dietary.spicy and "unset" otherwise; price is << >> when
\* the query has no price condition; category "" when it has none; nin and
\* names are empty when the query has no such condition.
PrimaryQuery(p) ==
    [ availability |-> AvailabilityCondition,
      vegetarian |-> DietaryCondition(p, "vegetarian"),
      vegan      |-> DietaryCondition(p, "vegan"),
      glutenFree |-> DietaryCondition(p, "glutenFree"),
      dairyFree  |-> DietaryCondition(p, "dairyFree"),
      price      |-> PriceCondition(p),
      category   |-> CategoryCondition(p),
      spicy      |-> SpiceCondition(p),
      nin        |-> AllergyCondition(p),
      names      |-> IngredientCondition(p) ]

\* mutant: the relaxed filter forgets the vegan request
RelaxedVegetarianOnly(p) == p.dietary.vegetarian

\* if (dietary.vegetarian || dietary.vegan) query['dietary.vegetarian'] = true
RelaxedVegetarian(p) == p.dietary.vegetarian \/ p.dietary.vegan

\* the filter of the "more flexible search"
RelaxedQuery(p) ==
    [ availability |-> AvailabilityCondition,
      vegetarian |-> RelaxedVegetarian(p),
      vegan      |-> FALSE,
      glutenFree |-> FALSE,
      dairyFree  |-> FALSE,
      price      |-> << >>,
      category   |-> "",
      spicy      |-> "unset",
      nin        |-> {},
      names      |-> << >> ]

\* every allergen tag of every ingredient of the document: the values the
\* path 'ingredients.allergens' ranges over
AllergenTags(item) ==
    UNION { item.ingredients[i].allergens : i \in 1..Len(item.ingredients) }

\* MongoDB's matching of one document against the filter
Matches(item, q) ==
    /\ item.availability = q.availability
    /\ q.vegetarian => item.dietary.vegetarian
    /\ q.vegan      => item.dietary.vegan
    /\ q.glutenFree => item.dietary.glutenFree
    /\ q.dairyFree  => item.dietary.dairyFree
    /\ \A i \in 1..Len(q.price) :
          item.price >= q.price[i].gte /\ item.price <= q.price[i].lte
    /\ q.category # "" => item.category = q.category
    /\ q.spicy = "true"  => item.dietary.spicy
    /\ q.spicy = "false" => ~ item.dietary.spicy
    /\ q.nin # {} => AllergenTags(item) \cap q.nin = {}
    /\ q.names # << >> =>
          \E i \in 1..Len(item.ingredients), j \in 1..Len(q.names) :
              RegExpTest(q.names[j], item.ingredients[i].name)

\* mutant: the sort keys in the other order, { popularity: -1, rating: -1 }
PrecedesPopularityFirst(a, b, tie) ==
    IF a.popularity # b.popularity
      THEN a.popularity > b.popularity
    ELSE IF a.rating.average # b.rating.average
      THEN a.rating.average > b.rating.average
    ELSE IF a.rating.count # b.rating.count
      THEN a.rating.count > b.rating.count
    ELSE IF tie = "forward" THEN a.id < b.id ELSE a.id > b.id

\* .sort({ rating: -1, popularity: -1 }): a precedes b.  rating is the
\* embedded document {average, count}, compared field by field; documents
\* equal on both keys come in natural order, which the store does not fix:
\* tie is the direction it happens to take.
Precedes(a, b, tie) ==
    IF a.rating.average # b.rating.average
      THEN a.rating.average > b.rating.average
    ELSE IF a.rating.count # b.rating.count
      THEN a.rating.count > b.rating.count
    ELSE IF a.popularity # b.popularity
      THEN a.popularity > b.popularity
    ELSE IF tie = "forward" THEN a.id < b.id ELSE a.id > b.id

RECURSIVE SortDocs(_, _)
SortDocs(S, tie) ==
    IF S = {} THEN << >>
    ELSE LET first == CHOOSE x \in S : \A y \in S \ {x} : Precedes(x, y, tie)
         IN  << first >> \o SortDocs(S \ {first}, tie)

Take(s, n) == SubSeq(s, 1, IF Len(s) < n THEN Len(s) ELSE n)

\* MenuItem.find(q).sort({ rating: -1, popularity: -1 }).limit(10)
Find(docs, q, tie) ==
    Take(SortDocs({ d \in docs : Matches(d, q) }, tie), Limit)

Range(s) == { s[i] : i \in 1..Len(s) }

-----------------------------------------------------------------------------
(* Order history, as the caller supplies it                                 *)

\* one purchased item: menuItem is the populated document or null
\* (present = FALSE); price is the price at the time of purchase
OrderItem(here, cat, ings, p) ==
    [ menuItem |-> [present |-> here, category |-> cat, ingredients |-> ings],
      price |-> p ]

\* one history entry; missing = {"items"} is an entry without an items list
Order(its) == [items |-> its, missing |-> {}]

MainOrder    == Order(<< OrderItem(TRUE, "main", <<Tofu, Herb>>, 1000) >>)
DessertOrder == Order(<< OrderItem(TRUE, "dessert", <<Nut>>, 2500),
                         OrderItem(FALSE, "", << >>, 700) >>)
BadOrder     == [items |-> << >>, missing |-> {"items"}]

Histories ==
    { << >>, << MainOrder >>, << DessertOrder >>, << MainOrder, DessertOrder >>,
      << DessertOrder, MainOrder, MainOrder >>, << BadOrder >>,
      << MainOrder, BadOrder >> }

-----------------------------------------------------------------------------
(* analyzeCustomerHistory and rankByAI                                      *)

Front(s) == SubSeq(s, 1, Len(s) - 1)

\* mutant: a sort that keeps one element of each score
RECURSIVE SortDescDistinct(_)
SortDescDistinct(s) ==
    IF s = << >> THEN << >>
    ELSE LET rest == SortDescDistinct(SubSeq(s, 1, Len(s) - 1))
             e    == s[Len(s)]
             n    == Cardinality({ i \in 1..Len(rest) : rest[i].score > e.score })
         IN  IF \E i \in 1..Len(rest) : rest[i].score = e.score THEN rest
             ELSE SubSeq(rest, 1, n) \o << e >> \o SubSeq(rest, n + 1, Len(rest))

\* mutant: a sort that puts a later element before the earlier ones of its score
RECURSIVE SortDescTiesReversed(_)
SortDescTiesReversed(s) ==
    IF s = << >> THEN << >>
    ELSE LET rest == SortDescTiesReversed(SubSeq(s, 1, Len(s) - 1))
             e    == s[Len(s)]
             n    == Cardinality({ i \in 1..Len(rest) : rest[i].score > e.score })
         IN  SubSeq(rest, 1, n) \o << e >> \o SubSeq(rest, n + 1, Len(rest))

\* Array.prototype.sort((a, b) => b.score - a.score): a stable sort,
\* descending by score
RECURSIVE SortDesc(_)
SortDesc(s) ==
    IF s = << >> THEN << >>
    ELSE LET rest == SortDesc(Front(s))
             e    == s[Len(s)]
             \* e goes after every element whose score is not smaller
             n    == Cardinality({ i \in 1..Len(rest) : rest[i].score >= e.score })
         IN  SubSeq(rest, 1, n) \o << e >> \o SubSeq(rest, n + 1, Len(rest))

RECURSIVE Flatten(_)
Flatten(ss) == IF ss = << >> THEN << >> ELSE Head(ss) \o Flatten(Tail(ss))

\* the purchased items of the whole history, in order
HistoryItems(history) == Flatten([i \in 1..Len(history) |-> history[i].items])

\* mutant: the keys ordered by where each is last seen
RECURSIVE LastSeen(_)
LastSeen(keys) ==
    IF keys = << >> THEN << >>
    ELSE LET rest == LastSeen(Tail(keys))
         IN  IF Head(keys) \in Range(rest) THEN rest
             ELSE << Head(keys) >> \o rest

\* the keys of a counting object in insertion order: each key where it is
\* first seen
RECURSIVE FirstSeen(_)
FirstSeen(keys) ==
    IF keys = << >> THEN << >>
    ELSE LET rest == FirstSeen(Front(keys))
         IN  IF keys[Len(keys)] \in Range(rest) THEN rest
             ELSE Append(rest, keys[Len(keys)])

\* Object.entries(count).sort(([,a],[,b]) => b - a).slice(0, k).map(([key]) => key)
TopKeys(keys, k) ==
    LET seen    == FirstSeen(keys)
        entries == [i \in 1..Len(seen) |->
                      [ item  |-> seen[i],
                        score |-> Cardinality({ j \in 1..Len(keys) : keys[j] = seen[i] }) ]]
        sorted  == Take(SortDesc(entries), k)
    IN  [i \in 1..Len(sorted) |-> sorted[i].item]

Min(S) == CHOOSE x \in S : \A y \in S : x <= y
Max(S) == CHOOSE x \in S : \A y \in S : x >= y

\* analyzeCustomerHistory throws: order.items.forEach on an entry that has
\* no items list
AnalyzeThrows(history) ==
    \E i \in 1..Len(history) : "items" \in history[i].missing

\* analyzeCustomerHistory.  priceRange is in tenths of a cent, so that the
\* factors 0.8 and 1.2 stay integers.
analyzeCustomerHistory(history) ==
    LET items  == HistoryItems(history)
        HasCat(it) == it.menuItem.present /\ it.menuItem.category # ""
        withCat == SelectSeq(items, HasCat)
        cats   == [i \in 1..Len(withCat) |-> withCat[i].menuItem.category]
        HasIng(it) == it.menuItem.present
        withIng == SelectSeq(items, HasIng)
        ings   == Flatten([i \in 1..Len(withIng) |->
                     [j \in 1..Len(withIng[i].menuItem.ingredients) |->
                        toLowerCase(withIng[i].menuItem.ingredients[j].name)]])
        prices == { items[i].price : i \in 1..Len(items) }
    IN  IF Len(history) = 0
          THEN [ preferredCategories |-> << >>, preferredIngredients |-> << >>,
                 priceRange |-> [min |-> 0, max |-> 100000] ]
          ELSE [ preferredCategories  |-> TopKeys(cats, 3),
                 preferredIngredients |-> TopKeys(ings, 10),
                 priceRange |-> IF prices = {}
                                  THEN [min |-> 0, max |-> 100000]
                                  ELSE [min |-> Min(prices) * 8,
                                        max |-> Max(prices) * 12] ]

\* scoring a candidate throws: item.rating.average or item.ingredients.filter
\* on a candidate that lacks the property
ScoreThrows(item) ==
    "rating" \in item.missing \/ "ingredients" \in item.missing

\* mutant: only the most frequent category earns the category bonus
ScoreFirstCategoryOnly(item, analysis) ==
    LET base  == item.rating.average * 4 + item.popularity * 10
        cat   == IF /\ analysis.preferredCategories # << >>
                    /\ item.category = analysis.preferredCategories[1]
                   THEN 30 ELSE 0
        match == Cardinality({ i \in 1..Len(item.ingredients) :
                    toLowerCase(item.ingredients[i].name)
                        \in Range(analysis.preferredIngredients) })
        price == IF /\ item.price * 10 >= analysis.priceRange.min
                    /\ item.price * 10 <= analysis.priceRange.max
                   THEN 20 ELSE 0
    IN  base + cat + match * 20 + price

\* mutant: the price band without its bounds
ScoreExclusiveBand(item, analysis) ==
    LET base  == item.rating.average * 4 + item.popularity * 10
        cat   == IF item.category \in Range(analysis.preferredCategories)
                   THEN 30 ELSE 0
        match == Cardinality({ i \in 1..Len(item.ingredients) :
                    toLowerCase(item.ingredients[i].name)
                        \in Range(analysis.preferredIngredients) })
        price == IF /\ item.price * 10 > analysis.priceRange.min
                    /\ item.price * 10 < analysis.priceRange.max
                   THEN 20 ELSE 0
    IN  base + cat + match * 20 + price

\* the score of one candidate, in hundredths
Score(item, analysis) ==
    LET base  == item.rating.average * 4 + item.popularity * 10
        cat   == IF item.category \in Range(analysis.preferredCategories)
                   THEN 30 ELSE 0
        match == Cardinality({ i \in 1..Len(item.ingredients) :
                    toLowerCase(item.ingredients[i].name)
                        \in Range(analysis.preferredIngredients) })
        price == IF /\ item.price * 10 >= analysis.priceRange.min
                    /\ item.price * 10 <= analysis.priceRange.max
                   THEN 20 ELSE 0
    IN  base + cat + match * 20 + price

\* mutant: rankByAI without its try/catch, so a scoring error leaves it
rankByAIUncaught(items, history) ==
    IF AnalyzeThrows(history) \/ \E i \in 1..Len(items) : ScoreThrows(items[i])
      THEN [items |-> << >>, caught |-> FALSE, threw |-> TRUE]
      ELSE LET analysis == analyzeCustomerHistory(history)
               scored == [i \in 1..Len(items) |->
                            [item |-> items[i], score |-> Score(items[i], analysis)]]
               sorted == SortDesc(scored)
           IN  [ items  |-> [i \in 1..Len(sorted) |-> sorted[i].item],
                 caught |-> FALSE, threw |-> FALSE ]

\* rankByAI: the returned list; caught says that the catch block ran, threw
\* that the error left rankByAI
rankByAI(items, history) ==
    IF AnalyzeThrows(history) \/ \E i \in 1..Len(items) : ScoreThrows(items[i])
      THEN [items |-> items, caught |-> TRUE, threw |-> FALSE]
      ELSE LET analysis == analyzeCustomerHistory(history)
               scored == [i \in 1..Len(items) |->
                            [item |-> items[i], score |-> Score(items[i], analysis)]]
               sorted == SortDesc(scored)
           IN  [ items  |-> [i \in 1..Len(sorted) |-> sorted[i].item],
                 caught |-> FALSE, threw |-> FALSE ]

-----------------------------------------------------------------------------
(* Inputs                                                                   *)

Dietaries ==
    { d \in [DietFlags -> BOOLEAN] :
        Cardinality({ f \in DietFlags : d[f] }) <= MaxFlags }

AllergyLists == { a \in SUBSET Allergens : Cardinality(a) <= MaxAllergies }

SpiceLevels == {"mild", "medium", "hot", "extra-hot"}

\* the default { min: 0, max: 100 } and the range 10..25
PriceRanges == { [min |-> 0, max |-> 10000], [min |-> 1000, max |-> 2500] }

DefaultPreferences ==
    [ dietary |-> [f \in DietFlags |-> FALSE], allergies |-> {},
      spiceLevel |-> "medium", priceRange |-> [min |-> 0, max |-> 10000],
      category |-> "", ingredients |-> << >> ]

\* the preferences of a request; allergies is the set of the list's members
PreferenceSet ==
    [ dietary : Dietaries, allergies : AllergyLists, spiceLevel : SpiceLevels,
      priceRange : PriceRanges, category : {"", "main"},
      ingredients : { << >>, << <<"t","o","f","u">> >> } ]

\* a preferred ingredient that is no regular expression
BadPreferences == [DefaultPreferences EXCEPT !.ingredients = << <<"(">> >>]

\* what a caller may hand to rankByAI: documents, and plain objects that
\* lack a property
PlainObjects ==
    { [d EXCEPT !.missing = m] : d \in { x \in Palette : x.id \in {1, 2} },
                                 m \in { {"rating"}, {"ingredients"} } }

RECURSIVE SeqsUpTo(_, _)
SeqsUpTo(S, n) ==
    IF n = 0 THEN { << >> }
    ELSE LET shorter == SeqsUpTo(S, n - 1)
         IN  shorter \cup { Append(q, x) : q \in shorter, x \in S }

NotRanked == [called |-> FALSE, items |-> << >>, caught |-> FALSE, threw |-> FALSE]

NoResult == [success |-> FALSE, recommendations |-> << >>, count |-> 0,
             error |-> "pending"]

NoResponse == [kind |-> "none", content |-> << >>]

NoRequest == [present |-> {}]

NoHttp == [status |-> 0, success |-> FALSE, error |-> << >>, data |-> << >>]

NoAnalysis == [derived |-> FALSE]

\* rankByAI has derived and scored nothing
ScoringIdle ==
    /\ historyAnalysis = NoAnalysis
    /\ scoredItems = << >>

\* the analytics routes are not involved
AnalyticsIdle ==
    /\ analyticsCache = << >>
    /\ now = 0
    /\ orderStore = 0
    /\ reqs = << >>
    /\ sent = << >>

\* the order and menu routes are not involved
OrderingIdle ==
    /\ menu = << >>
    /\ orders = << >>
    /\ calls = << >>

OutsideAIIdle == AnalyticsIdle /\ OrderingIdle

\* no route is involved: the service is called directly
OutsideServiceIdle ==
    /\ route = "none"
    /\ request = NoRequest
    /\ http = NoHttp
    /\ OutsideAIIdle
    /\ previous = NoResult

EnrichmentIdle ==
    /\ apiKey = FALSE
    /\ description = << >>
    /\ requestSent = FALSE
    /\ menuContext = "none"
    /\ response = NoResponse
    /\ state = << >>
    /\ thrown = FALSE

\* a call of getRecommendations(preferences, customerHistory)
InitGetRecommendations ==
    /\ op = "getRecommendations"
    /\ pc = "start"
    /\ catalog \in Catalogs
    /\ \/ preferences \in PreferenceSet /\ customerHistory = << >>
       \/ /\ preferences \in { DefaultPreferences, BadPreferences,
                               [DefaultPreferences EXCEPT !.spiceLevel = "mild",
                                                          !.category = "salad"] }
          /\ customerHistory \in Histories
    /\ candidates = << >>
    /\ pass = "none"
    /\ ranked = NotRanked
    /\ ScoringIdle
    /\ result = NoResult
    /\ EnrichmentIdle
    /\ OutsideServiceIdle

\* a call of rankByAI(items, customerHistory)
InitRankByAI ==
    /\ op = "rankByAI"
    /\ pc = "rank"
    /\ catalog = {}
    /\ preferences = DefaultPreferences
    /\ customerHistory \in Histories
    /\ candidates \in SeqsUpTo(Palette \cup PlainObjects, MaxCand)
    /\ pass = "none"
    /\ ranked = NotRanked
    /\ ScoringIdle
    /\ result = NoResult
    /\ EnrichmentIdle
    /\ OutsideServiceIdle

Init == InitGetRecommendations \/ InitRankByAI

-----------------------------------------------------------------------------
(* getRecommendations                                                       *)

enrichment == << apiKey, description, requestSent, menuContext, response,
                state, thrown >>

Failure == [success |-> FALSE, recommendations |-> << >>, count |-> 0,
            error |-> "Failed to get recommendations"]

Success(recs) == [success |-> TRUE, recommendations |-> recs,
                  count |-> Len(recs), error |-> ""]

\* building the query throws: ingredients.map(i => new RegExp(i, 'i'))
QueryThrows(p) ==
    \E i \in 1..Len(p.ingredients) : RegExpThrows(p.ingredients[i])

\* the query cannot be built: the catch block answers
GetRecommendationsCatch ==
    /\ op = "getRecommendations" /\ pc = "start"
    /\ QueryThrows(preferences)
    /\ result' = Failure
    /\ pc' = "done"
    /\ UNCHANGED << op, catalog, preferences, customerHistory, candidates, pass,
                    ranked, enrichment, scoring, outsideService >>

\* the first find, with the filter built from the preferences
GetRecommendationsFind ==
    /\ op = "getRecommendations" /\ pc = "start"
    /\ ~ QueryThrows(preferences)
    /\ \E tie \in {"forward", "backward"} :
          candidates' = Find(catalog, PrimaryQuery(preferences), tie)
    /\ pass' = "primary"
    /\ pc' = IF Len(candidates') = 0 THEN "relax" ELSE "rank"
    /\ UNCHANGED << op, catalog, preferences, customerHistory, ranked, result,
                    enrichment, scoring, outsideService >>

\* no exact matches: the more flexible search
GetRecommendationsRelax ==
    /\ op = "getRecommendations" /\ pc = "relax"
    /\ \E tie \in {"forward", "backward"} :
          candidates' = Find(catalog, RelaxedQuery(preferences), tie)
    /\ pass' = "fallback"
    /\ pc' = "rank"
    /\ UNCHANGED << op, catalog, preferences, customerHistory, ranked, result,
                    enrichment, scoring, outsideService >>

\* a history was supplied: rank, then return (or fail if rankByAI throws)
GetRecommendationsRank ==
    /\ op = "getRecommendations" /\ pc = "rank"
    /\ Len(customerHistory) > 0
    /\ LET r == rankByAI(candidates, customerHistory)
       IN  /\ ranked' = [called |-> TRUE, items |-> r.items,
                         caught |-> r.caught, threw |-> r.threw]
           /\ result' = IF r.threw THEN Failure ELSE Success(r.items)
    /\ pc' = "done"
    /\ UNCHANGED << op, catalog, preferences, customerHistory, candidates, pass,
                    enrichment, scoring, outsideService >>

\* no history: return the candidates as found
GetRecommendationsReturn ==
    /\ op = "getRecommendations" /\ pc = "rank"
    /\ Len(customerHistory) = 0
    /\ result' = Success(candidates)
    /\ pc' = "done"
    /\ UNCHANGED << op, catalog, preferences, customerHistory, candidates, pass,
                    ranked, enrichment, scoring, outsideService >>

\* rankByAI called on its own
RankByAI ==
    /\ op = "rankByAI" /\ pc = "rank"
    /\ LET r == rankByAI(candidates, customerHistory)
       IN  ranked' = [called |-> TRUE, items |-> r.items,
                      caught |-> r.caught, threw |-> r.threw]
    /\ pc' = "done"
    /\ UNCHANGED << op, catalog, preferences, customerHistory, candidates, pass,
                    result, enrichment, scoring, outsideService >>

Next ==
    \/ GetRecommendationsCatch
    \/ GetRecommendationsFind
    \/ GetRecommendationsRelax
    \/ GetRecommendationsRank
    \/ GetRecommendationsReturn
    \/ RankByAI

Spec == Init /\ [][Next]_vars

-----------------------------------------------------------------------------
(* The text enrichment client: enhanceDescription and answerQuestion        *)

\* the descriptions handed to enhanceDescription
Descriptions == { <<"d">>, <<" ","d"," ">>, <<"d","d">> }

\* the content of the provider's message
Contents == { << >>, <<" ">>, <<"o","k">>, <<" ","o","k"," ">> }

\* what axios.post produces: a rejection (timeout after 30000 ms, network
\* error, error status), or a response whose body has no choices[0].message
\* ("nomessage"), a message without content ("nocontent"), or a message
\* with content ("ok")
Responses ==
    { [kind |-> k, content |-> << >>] :
        k \in {"timeout", "network", "status", "nomessage", "nocontent"} }
      \cup { [kind |-> "ok", content |-> c] : c \in Contents }

\* the fixed messages of answerQuestion; a fixed message is one piece of
\* text, a generated answer a sequence of characters
NotAvailableMessage ==
    << "AI service is not available. Please contact staff for assistance." >>
NoResponseMessage ==
    << "I apologize, but I couldn't generate a response. Please ask our staff for assistance." >>
NotProcessedMessage ==
    << "I apologize, but I couldn't process your question. Please ask our staff for assistance." >>
DifficultiesMessage ==
    << "I apologize, but I'm experiencing technical difficulties. Please ask our staff for assistance." >>

\* if (!this.apiKey)
NoCredential(key) == ~ key

\* await axios.post(...) rejects
PostRejects(resp) == resp.kind \in {"timeout", "network", "status"}

\* response.data && response.data.choices && response.data.choices[0]
\*   && response.data.choices[0].message
HasMessage(resp) == resp.kind \in {"ok", "nocontent"}

\* message.content.trim() throws a TypeError when content is not a string
ContentThrows(resp) == resp.kind = "nocontent"

\* the state the outcome of the request stands for
Outcome(resp) ==
    CASE resp.kind = "ok" -> "SUCCESS"
      [] resp.kind = "timeout" -> "TIMEOUT"
      [] OTHER -> "ERROR"

\* mutant: the description is tidied before it is handed back
EnhanceWithoutKeyTrimmed(original) == [value |-> trim(original), threw |-> FALSE]

\* enhanceDescription without a credential: return originalDescription
EnhanceWithoutKey(original) == [value |-> original, threw |-> FALSE]

\* mutant: the catch block logs and rethrows
EnhanceCatchRethrows(original) == [value |-> << >>, threw |-> TRUE]

\* the catch block of enhanceDescription
EnhanceCatch(original) == [value |-> original, threw |-> FALSE]

\* enhanceDescription after the request: the value it returns
EnhanceAfterPost(original, resp) ==
    IF PostRejects(resp) THEN EnhanceCatch(original)
    ELSE IF HasMessage(resp)
      THEN IF ContentThrows(resp) THEN EnhanceCatch(original)
           ELSE LET enhanced == trim(resp.content)
                IN  [ value |-> IF enhanced # << >> THEN enhanced ELSE original,
                      threw |-> FALSE ]
    ELSE [value |-> original, threw |-> FALSE]

\* answerQuestion without a credential
AnswerWithoutKey ==
    [success |-> FALSE, answer |-> NotAvailableMessage, source |-> "fallback",
     threw |-> FALSE]

\* the catch block of answerQuestion
AnswerCatch ==
    [success |-> FALSE, answer |-> DifficultiesMessage, source |-> "fallback",
     threw |-> FALSE]

\* answerQuestion after the request: the value it returns
AnswerAfterPost(resp) ==
    IF PostRejects(resp) THEN AnswerCatch
    ELSE IF HasMessage(resp)
      THEN IF ContentThrows(resp) THEN AnswerCatch
           ELSE LET answer == trim(resp.content)
                IN  [ success |-> TRUE,
                      answer  |-> IF answer # << >> THEN answer ELSE NoResponseMessage,
                      source  |-> "ai", threw |-> FALSE ]
    ELSE [success |-> FALSE, answer |-> NotProcessedMessage, source |-> "fallback",
          threw |-> FALSE]

\* the state a return stands for: SUCCESS when the provider's message was
\* used, FALLBACK otherwise
Terminal(resp) ==
    IF ~ PostRejects(resp) /\ HasMessage(resp) /\ ~ ContentThrows(resp)
      THEN << >> ELSE << "FALLBACK" >>

matcher == << catalog, preferences, customerHistory, candidates, pass, ranked,
             scoring >>

InitEnrich ==
    /\ op \in {"enhanceDescription", "answerQuestion"}
    /\ pc = "start"
    /\ apiKey \in BOOLEAN
    /\ description \in Descriptions
    /\ requestSent = FALSE
    /\ menuContext = "none"
    /\ response = NoResponse
    /\ state = << IF apiKey THEN "KEY_PRESENT" ELSE "NO_KEY" >>
    /\ thrown = FALSE
    /\ result = NoResult
    /\ catalog = {}
    /\ preferences = DefaultPreferences
    /\ customerHistory = << >>
    /\ candidates = << >>
    /\ pass = "none"
    /\ ranked = NotRanked
    /\ ScoringIdle
    /\ OutsideServiceIdle

\* enhanceDescription, no credential: the description goes back as it came
EnhanceDescriptionShortCircuit ==
    /\ op = "enhanceDescription" /\ pc = "start"
    /\ NoCredential(apiKey)
    /\ LET r == EnhanceWithoutKey(description)
       IN  result' = [value |-> r.value] /\ thrown' = r.threw
    /\ state' = Append(state, "SHORT_CIRCUIT")
    /\ pc' = "done"
    /\ UNCHANGED << op, matcher, outsideService, apiKey, description, requestSent, menuContext,
                    response >>

\* enhanceDescription, credential present: the prompt is built and posted
EnhanceDescriptionPost ==
    /\ op = "enhanceDescription" /\ pc = "start"
    /\ ~ NoCredential(apiKey)
    /\ requestSent' = TRUE
    /\ state' = Append(state, "REQUEST_SENT")
    /\ pc' = "awaiting"
    /\ UNCHANGED << op, matcher, outsideService, result, apiKey, description, menuContext,
                    response, thrown >>

\* answerQuestion, no credential: the fixed message
AnswerQuestionShortCircuit ==
    /\ op = "answerQuestion" /\ pc = "start"
    /\ NoCredential(apiKey)
    /\ result' = [success |-> AnswerWithoutKey.success,
                  answer |-> AnswerWithoutKey.answer,
                  source |-> AnswerWithoutKey.source]
    /\ thrown' = AnswerWithoutKey.threw
    /\ state' = Append(state, "SHORT_CIRCUIT")
    /\ pc' = "done"
    /\ UNCHANGED << op, matcher, outsideService, apiKey, description, requestSent, menuContext,
                    response >>

\* answerQuestion, credential present: getMenuContext is awaited
AnswerQuestionStart ==
    /\ op = "answerQuestion" /\ pc = "start"
    /\ ~ NoCredential(apiKey)
    /\ pc' = "context"
    /\ UNCHANGED << op, matcher, outsideService, result, enrichment, outsideService >>

\* getMenuContext returns the context, or its own fallback text when the
\* store fails; then the prompt is built and posted
AnswerQuestionPost ==
    /\ op = "answerQuestion" /\ pc = "context"
    /\ menuContext' \in {"context", "unavailable"}
    /\ requestSent' = TRUE
    /\ state' = Append(state, "REQUEST_SENT")
    /\ pc' = "awaiting"
    /\ UNCHANGED << op, matcher, outsideService, result, apiKey, description, response, thrown >>

\* the provider answers, fails, or the 30 s timeout expires
PostSettles ==
    /\ op \in {"enhanceDescription", "answerQuestion"} /\ pc = "awaiting"
    /\ response' \in Responses
    /\ state' = Append(state, Outcome(response'))
    /\ pc' = "settled"
    /\ UNCHANGED << op, matcher, outsideService, result, apiKey, description, requestSent,
                    menuContext, thrown >>

\* enhanceDescription resumes after the request
EnhanceDescriptionReturn ==
    /\ op = "enhanceDescription" /\ pc = "settled"
    /\ LET r == EnhanceAfterPost(description, response)
       IN  /\ result' = [value |-> r.value]
           /\ thrown' = r.threw
           /\ state' = IF r.threw THEN state ELSE state \o Terminal(response)
    /\ pc' = "done"
    /\ UNCHANGED << op, matcher, outsideService, apiKey, description, requestSent, menuContext,
                    response >>

\* answerQuestion resumes after the request
AnswerQuestionReturn ==
    /\ op = "answerQuestion" /\ pc = "settled"
    /\ LET r == AnswerAfterPost(response)
       IN  /\ result' = [success |-> r.success, answer |-> r.answer,
                         source |-> r.source]
           /\ thrown' = r.threw
           /\ state' = IF r.threw THEN state ELSE state \o Terminal(response)
    /\ pc' = "done"
    /\ UNCHANGED << op, matcher, outsideService, apiKey, description, requestSent, menuContext,
                    response >>

NextEnrich ==
    \/ EnhanceDescriptionShortCircuit
    \/ EnhanceDescriptionPost
    \/ EnhanceDescriptionReturn
    \/ AnswerQuestionShortCircuit
    \/ AnswerQuestionStart
    \/ AnswerQuestionPost
    \/ AnswerQuestionReturn
    \/ PostSettles

SpecEnrich == InitEnrich /\ [][NextEnrich]_vars

-----------------------------------------------------------------------------
(* Properties of getRecommendations and rankByAI                            *)

\* getRecommendations has returned
Returned == op = "getRecommendations" /\ pc = "done"

\* some ingredient of the item carries one of the listed allergies
HasListedAllergen(item, allergies) ==
    \E i \in 1..Len(item.ingredients) :
        item.ingredients[i].allergens \cap allergies # {}

\* a is strictly ahead of b in the order "rating descending, then popularity
\* descending"; rating is the stored rating, its average before its count
Ahead(a, b) ==
    \/ a.rating.average > b.rating.average
    \/ a.rating.average = b.rating.average /\ a.rating.count > b.rating.count
    \/ a.rating.average = b.rating.average /\ a.rating.count = b.rating.count
         /\ a.popularity > b.popularity

\* the items of recs are a cut of the set S after its first Limit items in
\* that order: nothing left out is ahead of anything kept
CutOf(recs, S) ==
    /\ Range(recs) \subseteq S
    /\ Cardinality(Range(recs)) = Len(recs)
    /\ Len(recs) = IF Cardinality(S) < Limit THEN Cardinality(S) ELSE Limit
    /\ \A d \in S \ Range(recs) : \A i \in 1..Len(recs) : ~ Ahead(d, recs[i])

\* recs are the first Limit of the set S, listed in that order
FirstOf(recs, S) ==
    /\ CutOf(recs, S)
    /\ \A i, j \in 1..Len(recs) : i < j => ~ Ahead(recs[j], recs[i])

\* C1 as stated: with a non-empty allergy list, no returned item, whichever
\* pass produced it, contains an ingredient tagged with a listed allergy.
C1_NoAllergenInAnyPass ==
    (Returned /\ result.success /\ preferences.allergies # {}) =>
        \A i \in 1..Len(result.recommendations) :
            ~ HasListedAllergen(result.recommendations[i], preferences.allergies)

\* C1 (amended): with a non-empty allergy list, no item returned from the
\* primary pass contains an ingredient tagged with a listed allergy.
C1_NoAllergenInPrimaryPass ==
    (Returned /\ result.success /\ pass = "primary"
       /\ preferences.allergies # {}) =>
        \A i \in 1..Len(result.recommendations) :
            ~ HasListedAllergen(result.recommendations[i], preferences.allergies)

\* a primary pass returned items while an available item with a listed
\* allergen was in the catalog
C1_Witness ==
    /\ Returned /\ result.success /\ pass = "primary"
    /\ preferences.allergies # {}
    /\ result.recommendations # << >>
    /\ \E d \in catalog : /\ d.availability = "available"
                          /\ HasListedAllergen(d, preferences.allergies)

\* the items the relaxed filter admits: available and, if vegetarian or
\* vegan was requested, vegetarian
RelaxedSet ==
    { d \in catalog :
        /\ d.availability = "available"
        /\ (preferences.dietary.vegetarian \/ preferences.dietary.vegan)
              => d.dietary.vegetarian }

\* C2 as stated: when the primary filter matches nothing the call succeeds
\* and returns exactly the items the relaxed filter admits.
C2_ExactlyRelaxedSet ==
    (Returned /\ pass = "fallback") =>
        /\ result.success
        /\ Range(result.recommendations) = RelaxedSet
        /\ result.count = Cardinality(RelaxedSet)

\* C2 (amended): when the primary filter matches nothing the call succeeds
\* and returns the items the relaxed filter admits, cut to the first 10 in
\* rating-then-popularity order; if there are none, the empty list with
\* count 0.  The relaxed find is made exactly when the primary find is empty.
C2_RelaxedSetCapped ==
    /\ (Returned /\ pass = "fallback") =>
          /\ result.success
          /\ result.error = ""
          /\ CutOf(result.recommendations, RelaxedSet)
          /\ result.count = Len(result.recommendations)
          /\ RelaxedSet = {} => (result.recommendations = << >> /\ result.count = 0)
    /\ (op = "getRecommendations" /\ pc = "relax") =>
          (pass = "primary" /\ candidates = << >>)
    /\ (op = "getRecommendations" /\ pass = "fallback") => pc \in {"rank", "done"}
    /\ (op = "getRecommendations" /\ pc \in {"rank", "done"} /\ pass = "primary") =>
          candidates # << >>

\* the fallback pass returned items although a vegan request was unsatisfiable
C2_Witness ==
    /\ Returned /\ pass = "fallback"
    /\ preferences.dietary.vegan
    /\ result.recommendations # << >>
    /\ \E d \in catalog : d.availability = "available" /\ ~ d.dietary.vegetarian

\* the conditions C3 lists: available, every requested dietary flag, price
\* within [min, max], the category if given, a preferred ingredient if any
ListedConditions(d, p) ==
    /\ d.availability = "available"
    /\ \A f \in DietFlags : p.dietary[f] => d.dietary[f]
    /\ p.priceRange.min <= d.price /\ d.price <= p.priceRange.max
    /\ p.category # "" => d.category = p.category
    /\ p.ingredients # << >> =>
          \E i \in 1..Len(d.ingredients), j \in 1..Len(p.ingredients) :
              RegExpTest(p.ingredients[j], d.ingredients[i].name)

\* the two conditions C3 leaves out: the spice level and the allergy list
SpiceAndAllergyConditions(d, p) ==
    /\ p.spiceLevel = "mild" => ~ d.dietary.spicy
    /\ p.spiceLevel \in {"hot", "extra-hot"} => d.dietary.spicy
    /\ ~ HasListedAllergen(d, p.allergies)

\* the primary filter matched between 1 and 10 items
PrimaryMatchedFew ==
    /\ Returned /\ result.success /\ pass = "primary"
    /\ Cardinality({ d \in catalog : Matches(d, PrimaryQuery(preferences)) }) <= Limit

\* the example of the specification: {vegetarian: true, price 10..25} over a
\* vegetarian item at 18.99 and a non-vegetarian item at 15.00
ExampleCatalog == { d \in Palette : d.id \in {1, 2} }
ExamplePreferences ==
    [DefaultPreferences EXCEPT !.dietary.vegetarian = TRUE,
                               !.priceRange = [min |-> 1000, max |-> 2500]]

\* C3 as stated: when the primary filter matches 1..10 items, the returned
\* set is exactly the set of items meeting the listed conditions.
C3_ExactlyListedConditions ==
    PrimaryMatchedFew =>
        Range(result.recommendations)
            = { d \in catalog : ListedConditions(d, preferences) }

\* C3 (amended): when the primary filter matches 1..10 items, the returned
\* set is exactly the set of items meeting the listed conditions and also
\* the spice-level condition and the allergy exclusion; the example returns
\* exactly the vegetarian item.
C3_ExactlyAllConditions ==
    /\ PrimaryMatchedFew =>
          /\ Range(result.recommendations)
                = { d \in catalog : /\ ListedConditions(d, preferences)
                                    /\ SpiceAndAllergyConditions(d, preferences) }
          /\ Len(result.recommendations) = Cardinality(Range(result.recommendations))
    /\ (Returned /\ catalog = ExampleCatalog /\ preferences = ExamplePreferences) =>
          /\ Len(result.recommendations) = 1
          /\ result.recommendations[1].id = 1

\* the example has run; its items cost 18.99 and 15.00
C3_Witness ==
    /\ PrimaryMatchedFew
    /\ catalog = ExampleCatalog /\ preferences = ExamplePreferences
    /\ { d.price : d \in catalog } = {1899, 1500}
    /\ Len(result.recommendations) = 1

\* C4: every item returned, in the primary and in the fallback pass, has
\* availability 'available'.
C4_OnlyAvailable ==
    (Returned /\ result.success) =>
        \A i \in 1..Len(result.recommendations) :
            result.recommendations[i].availability = "available"

\* a fallback pass returned items from a catalog that holds a limited and an
\* unavailable item
C4_Witness ==
    /\ Returned /\ result.success /\ pass = "fallback"
    /\ result.recommendations # << >>
    /\ \E d \in catalog : d.availability = "limited"
    /\ \E d \in catalog : d.availability = "unavailable"

\* the items the filter of the pass that answered admits
PassSet ==
    { d \in catalog :
        Matches(d, IF pass = "primary" THEN PrimaryQuery(preferences)
                                       ELSE RelaxedQuery(preferences)) }

\* C5: without a history, in both passes, the call returns at most 10 items
\* in rating-then-popularity order, the first 10 of all matching items.
C5_FirstTenInOrder ==
    (Returned /\ result.success /\ customerHistory = << >>) =>
        /\ Len(result.recommendations) <= Limit
        /\ FirstOf(result.recommendations, PassSet)

\* more than 10 items matched and the cut fell between items of different rank
C5_Witness ==
    /\ Returned /\ result.success /\ customerHistory = << >>
    /\ Cardinality(PassSet) > Limit
    /\ Len(result.recommendations) = Limit
    /\ \E d \in PassSet \ Range(result.recommendations) :
          Ahead(result.recommendations[Limit], d)
    /\ \E i \in 1..(Limit - 1) :
          /\ result.recommendations[i].rating.average
                = result.recommendations[i + 1].rating.average
          /\ result.recommendations[i].popularity
                < result.recommendations[i + 1].popularity

\* the number of times x occurs in s
Occurrences(x, s) == Cardinality({ i \in 1..Len(s) : s[i] = x })

\* C6: the output of rankByAI is a permutation of its input, and is the
\* input itself when scoring failed.
C6_RankIsPermutation ==
    ranked.called =>
        /\ Len(ranked.items) = Len(candidates)
        /\ \A x \in Range(candidates) \cup Range(ranked.items) :
              Occurrences(x, ranked.items) = Occurrences(x, candidates)
        /\ ranked.caught => ranked.items = candidates

\* rankByAI scored a list that holds the same item twice and changed the order
C6_Witness ==
    /\ ranked.called /\ ~ ranked.caught
    /\ ranked.items # candidates
    /\ Len(candidates) > Cardinality(Range(candidates))

\* an error occurs in rankByAI for these arguments
RankingFails ==
    \/ AnalyzeThrows(customerHistory)
    \/ \E i \in 1..Len(candidates) : ScoreThrows(candidates[i])

\* C7: on an error while analysing the history or scoring, rankByAI does not
\* throw and returns the list in its original order, and getRecommendations
\* returns that list with success = true.
C7_RankingErrorAbsorbed ==
    (ranked.called /\ RankingFails) =>
        /\ ~ ranked.threw
        /\ ranked.items = candidates
        /\ op = "getRecommendations" =>
              /\ result.success
              /\ result.recommendations = candidates
              /\ result.count = Len(candidates)

\* getRecommendations met a history entry without an items list
C7_Witness ==
    /\ Returned /\ ranked.called /\ ranked.caught
    /\ AnalyzeThrows(customerHistory)
    /\ Len(candidates) >= 2

-----------------------------------------------------------------------------
(* Properties of the text enrichment client                                 *)

EnrichmentDone == op \in {"enhanceDescription", "answerQuestion"} /\ pc = "done"

\* C8: without a credential enhanceDescription returns its input unchanged,
\* answerQuestion returns the fixed message with source 'fallback', and no
\* request is sent: NO_KEY leads directly to SHORT_CIRCUIT.
C8_NoCredentialShortCircuits ==
    /\ (op \in {"enhanceDescription", "answerQuestion"} /\ ~ apiKey) =>
          /\ ~ requestSent
          /\ response = NoResponse
          /\ pc \in {"start", "done"}
    /\ (EnrichmentDone /\ ~ apiKey) =>
          /\ state = << "NO_KEY", "SHORT_CIRCUIT" >>
          /\ ~ thrown
          /\ op = "enhanceDescription" => result.value = description
          /\ op = "answerQuestion" =>
                /\ result.answer = NotAvailableMessage
                /\ result.source = "fallback"

\* enhanceDescription returned without a credential a description that has
\* blanks at its ends
C8_Witness ==
    /\ op = "enhanceDescription" /\ pc = "done" /\ ~ apiKey
    /\ trim(description) # description
    /\ result.value = description

\* the paths of the per-call state machine
TerminalPaths ==
    { << "NO_KEY", "SHORT_CIRCUIT" >>,
      << "KEY_PRESENT", "REQUEST_SENT", "SUCCESS" >>,
      << "KEY_PRESENT", "REQUEST_SENT", "TIMEOUT", "FALLBACK" >>,
      << "KEY_PRESENT", "REQUEST_SENT", "ERROR", "FALLBACK" >> }

\* the content a call falls back to
IsFallbackContent ==
    /\ op = "enhanceDescription" => result.value = description
    /\ op = "answerQuestion" =>
          /\ result.answer \in {NotProcessedMessage, DifficultiesMessage}
          /\ result.source = "fallback" /\ ~ result.success

\* C9: every call ends in exactly one of SHORT_CIRCUIT, SUCCESS, FALLBACK;
\* with a credential a request is sent and its outcome is SUCCESS, TIMEOUT
\* or ERROR; TIMEOUT and ERROR converge to FALLBACK; the operation never
\* throws; a call that has not returned can always go on.
C9_CallStateMachine ==
    /\ op \in {"enhanceDescription", "answerQuestion"} =>
          /\ ~ thrown
          /\ pc # "done" => ENABLED NextEnrich
          /\ \E path \in TerminalPaths :
                Len(state) <= Len(path) /\ state = SubSeq(path, 1, Len(state))
    /\ EnrichmentDone =>
          /\ state \in TerminalPaths
          /\ apiKey => (requestSent /\ response # NoResponse)
          /\ apiKey => state[3] = Outcome(response)
          /\ state[Len(state)] = "FALLBACK" => IsFallbackContent

\* a call with a credential timed out and fell back
C9_Witness ==
    /\ EnrichmentDone /\ apiKey
    /\ response.kind = "timeout"
    /\ state = << "KEY_PRESENT", "REQUEST_SENT", "TIMEOUT", "FALLBACK" >>

\* the fixed apologetic messages answerQuestion may give after a request
ApologeticMessages == {NoResponseMessage, NotProcessedMessage, DifficultiesMessage}

\* C10: whenever the answer is one of the fixed apologetic messages (timeout,
\* network error, response without a usable message, empty content), the
\* result has source 'fallback' and success false.
C10_ApologyIsFallback ==
    (op = "answerQuestion" /\ pc = "done" /\ result.answer \in ApologeticMessages) =>
        (result.source = "fallback" /\ ~ result.success)

-----------------------------------------------------------------------------
(* The AI routes (routes/ai.js): POST /ask and POST /recommendations        *)

\* questionSchema: question is Joi.string().required().trim().min(5).max(500)
MinQuestion == 5
MaxQuestion == 500

\* the question of a request body, when it has one
Questions ==
    { <<"h","i">>,
      <<" ","s","o","u","p"," ">>,
      <<"v","e","g","a","n">>,
      <<" ","v","e","g","a","n","?"," ">>,
      [i \in 1..(MaxQuestion + 1) |-> "q"] }

\* the bodies sent to POST /ask
AskBodies ==
    { [present |-> {}, question |-> << >>] }
      \cup { [present |-> {"question"}, question |-> q] : q \in Questions }

\* questionSchema.validate(req.body) reports an error
QuestionSchemaError(body) ==
    \/ "question" \notin body.present
    \/ Len(trim(body.question)) < MinQuestion
    \/ Len(trim(body.question)) > MaxQuestion

\* the keys recommendationSchema describes; Joi rejects any other key
RecommendationKeys ==
    {"dietary", "allergies", "spiceLevel", "priceRange", "category", "ingredients"}

\* priceRange.min and priceRange.max are Joi.number().min(0).max(1000)
MaxPrice == 100000

\* recommendationSchema.validate(req.body) reports an error
RecommendationSchemaError(body) ==
    \/ body.present \ RecommendationKeys # {}
    \/ /\ "spiceLevel" \in body.present
       /\ body.spiceLevel \notin {"mild", "medium", "hot", "extra-hot"}
    \/ /\ "category" \in body.present
       /\ body.category \notin {"appetizer", "main", "dessert", "beverage",
                                "side", "salad", "soup"}
    \/ /\ "allergies" \in body.present
       /\ ~ (body.allergies \subseteq {"gluten", "dairy", "nuts", "shellfish",
                                       "eggs", "soy", "fish", "wheat"})
    \/ /\ "priceRange" \in body.present
       /\ \/ body.priceRange.min < 0 \/ body.priceRange.min > MaxPrice
          \/ body.priceRange.max < 0 \/ body.priceRange.max > MaxPrice

\* the preferences the route hands on: value.x || default
RoutePreferences(body) ==
    [ dietary    |-> IF "dietary" \in body.present THEN body.dietary
                     ELSE [f \in DietFlags |-> FALSE],
      allergies  |-> IF "allergies" \in body.present THEN body.allergies ELSE {},
      spiceLevel |-> IF "spiceLevel" \in body.present THEN body.spiceLevel
                     ELSE "medium",
      priceRange |-> IF "priceRange" \in body.present THEN body.priceRange
                     ELSE [min |-> 0, max |-> 10000],
      category   |-> IF "category" \in body.present THEN body.category ELSE "",
      ingredients |-> IF "ingredients" \in body.present THEN body.ingredients
                      ELSE << >> ]

\* req.body.customerHistory || []
RouteHistory(body) ==
    IF "customerHistory" \in body.present /\ Len(body.customerHistory) > 0
      THEN body.customerHistory ELSE << >>

\* a body made of preferences p, the keys in present, and a history
RecommendationBody(p, present, history) ==
    [ present |-> present, dietary |-> p.dietary, allergies |-> p.allergies,
      spiceLevel |-> p.spiceLevel, priceRange |-> p.priceRange,
      category |-> p.category, ingredients |-> p.ingredients,
      customerHistory |-> history ]

\* the preferences of the request bodies
BodyPreferences ==
    { [DefaultPreferences EXCEPT !.category = "main"],
      [DefaultPreferences EXCEPT !.category = "main", !.spiceLevel = "bland"],
      [DefaultPreferences EXCEPT !.category = "main",
                                 !.priceRange = [min |-> 1000, max |-> 2500]],
      [DefaultPreferences EXCEPT !.category = "main",
                                 !.dietary = [f \in DietFlags |-> f = "vegan"]],
      [DefaultPreferences EXCEPT !.category = "main",
                                 !.ingredients = << <<"(">> >>] }

\* the bodies sent to POST /recommendations
RecommendationBodies ==
    { RecommendationBody(p, present, history) :
        p \in BodyPreferences,
        present \in { {}, RecommendationKeys,
                      RecommendationKeys \cup {"customerHistory"} },
        history \in { << >>, << MainOrder >> } }

\* the catalogs behind the route
RouteCatalogs == { {}, Palette }

ValidationError ==
    [status |-> 400, success |-> FALSE, error |-> << "Validation error" >>,
     data |-> << >>]

InitAsk ==
    /\ route = "POST /ask"
    /\ request \in AskBodies
    /\ op = "answerQuestion"
    /\ pc = "validate"
    /\ apiKey \in BOOLEAN
    /\ description = << >>
    /\ state = << IF apiKey THEN "KEY_PRESENT" ELSE "NO_KEY" >>
    /\ catalog = {}
    /\ preferences = DefaultPreferences
    /\ customerHistory = << >>

InitRecommendations ==
    /\ route = "POST /recommendations"
    /\ request \in RecommendationBodies
    /\ op = "getRecommendations"
    /\ pc = "validate"
    /\ apiKey = FALSE
    /\ description = << >>
    /\ state = << >>
    /\ catalog \in RouteCatalogs
    /\ preferences = DefaultPreferences
    /\ customerHistory = << >>

InitRoutes ==
    /\ InitAsk \/ InitRecommendations
    /\ http = NoHttp
    /\ requestSent = FALSE
    /\ menuContext = "none"
    /\ response = NoResponse
    /\ thrown = FALSE
    /\ result = NoResult
    /\ candidates = << >>
    /\ pass = "none"
    /\ ranked = NotRanked
    /\ ScoringIdle
    /\ OutsideAIIdle
    /\ previous = NoResult

\* POST /ask: the body is validated; a valid question goes to answerQuestion
AskValidate ==
    /\ route = "POST /ask" /\ pc = "validate"
    /\ IF QuestionSchemaError(request)
         THEN /\ http' = ValidationError
              /\ pc' = "responded"
              /\ UNCHANGED description
         ELSE /\ description' = trim(request.question)
              /\ pc' = "start"
              /\ UNCHANGED http
    /\ UNCHANGED << op, matcher, result, apiKey, requestSent, menuContext,
                    response, state, thrown, route, request, outsideAI,
                    previous >>

\* the response POST /ask sends for what answerQuestion returned or threw
AskResponse(r, threw) ==
    IF threw
      THEN [status |-> 500, success |-> FALSE,
            error |-> << "Failed to process your question" >>, data |-> << >>]
    ELSE IF r.success
      THEN [status |-> 200, success |-> TRUE, error |-> << >>,
            data |-> [answer |-> r.answer, source |-> r.source]]
    ELSE [status |-> 500, success |-> FALSE, error |-> r.answer, data |-> << >>]

\* POST /ask: answerQuestion has returned, the response is sent
AskRespond ==
    /\ route = "POST /ask" /\ pc = "done"
    /\ http' = AskResponse(result, thrown)
    /\ pc' = "responded"
    /\ UNCHANGED << op, matcher, result, enrichment, route, request, outsideAI,
                    previous >>

\* POST /recommendations: the body is validated, defaults are set and the
\* history is read from the body; then getRecommendations is called
RecommendationsValidate ==
    /\ route = "POST /recommendations" /\ pc = "validate"
    /\ IF RecommendationSchemaError(request)
         THEN /\ http' = ValidationError
              /\ pc' = "responded"
              /\ UNCHANGED << preferences, customerHistory >>
         ELSE /\ preferences' = RoutePreferences(request)
              /\ customerHistory' = RouteHistory(request)
              /\ pc' = "start"
              /\ UNCHANGED http
    /\ UNCHANGED << op, catalog, candidates, pass, ranked, scoring, result,
                    enrichment, route, request, outsideAI,
                    previous >>

\* the response POST /recommendations sends for what getRecommendations returned
RecommendationsResponse(r) ==
    IF r.success
      THEN [status |-> 200, success |-> TRUE, error |-> << >>,
            data |-> [recommendations |-> r.recommendations, count |-> r.count]]
      ELSE [status |-> 500, success |-> FALSE, error |-> << r.error >>,
            data |-> << >>]

\* POST /recommendations: getRecommendations has returned, the response is sent
RecommendationsRespond ==
    /\ route = "POST /recommendations" /\ pc = "done"
    /\ http' = RecommendationsResponse(result)
    /\ pc' = "responded"
    /\ UNCHANGED << op, matcher, result, enrichment, route, request, outsideAI,
                    previous >>

\* GetRecommendationsRank is no step of this specification: no body that
\* passes recommendationSchema carries a history (RouteHistoryIsEmpty)
NextRoutes ==
    \/ AskValidate
    \/ AnswerQuestionShortCircuit
    \/ AnswerQuestionStart
    \/ AnswerQuestionPost
    \/ PostSettles
    \/ AnswerQuestionReturn
    \/ AskRespond
    \/ RecommendationsValidate
    \/ GetRecommendationsCatch
    \/ GetRecommendationsFind
    \/ GetRecommendationsRelax
    \/ GetRecommendationsReturn
    \/ RecommendationsRespond

SpecRoutes == InitRoutes /\ [][NextRoutes]_vars

-----------------------------------------------------------------------------
(* Properties of the AI routes                                              *)

\* the provider call failed, or was never made for want of a credential
ProviderFailed ==
    \/ ~ apiKey
    \/ response.kind \in {"timeout", "network", "status", "nomessage", "nocontent"}

\* the fixed answers answerQuestion falls back to
FallbackAnswers ==
    { NotAvailableMessage, NotProcessedMessage, DifficultiesMessage }

\* C11: for a valid POST /ask request whose provider call times out, errors,
\* returns a malformed response, or has no credential, the response has no
\* error status and carries the fallback answer.
C11_FallbackIsNoRequestFailure ==
    ( /\ route = "POST /ask" /\ pc = "responded"
      /\ ~ QuestionSchemaError(request)
      /\ ProviderFailed )
    => /\ http.status = 200
       /\ http.data.answer \in FallbackAnswers

\* the history-less flow is the only one the route can take
RouteHistoryIsEmpty ==
    (route = "POST /recommendations" /\ pc # "validate" /\ http.status # 400)
    => customerHistory = << >>

\* C17: a POST /recommendations request with valid preferences and a
\* non-empty customerHistory is answered with the candidates in the order the
\* ranker gave them, and the ranker is invoked only for a non-empty history.
C17_HistoryReachesRanker ==
    /\ ( /\ route = "POST /recommendations" /\ pc = "responded"
         /\ ~ RecommendationSchemaError(
                  [request EXCEPT !.present = @ \ {"customerHistory"}])
         /\ ~ QueryThrows(RoutePreferences(request))
         /\ "customerHistory" \in request.present
         /\ Len(request.customerHistory) > 0 )
       => /\ http.status = 200
          /\ ranked.called
          /\ http.data.recommendations = ranked.items
    /\ (route = "POST /recommendations" /\ ranked.called)
       => Len(customerHistory) > 0

-----------------------------------------------------------------------------
(* The analytics cache (routes/analytics.js)                                *)
(*                                                                          *)
(* Time is in minutes.  An aggregation's result stands for the endpoint    *)
(* and the version of the order data it read.                               *)

\* the AI service and its routes
aiSide == << op, pc, matcher, result, enrichment, route, request, http, previous >>

\* what the analytics routes do not touch
outsideAnalytics == << aiSide, ordering >>

AIIdle ==
    /\ op = "none"
    /\ pc = "none"
    /\ catalog = {}
    /\ preferences = DefaultPreferences
    /\ customerHistory = << >>
    /\ candidates = << >>
    /\ pass = "none"
    /\ ranked = NotRanked
    /\ ScoringIdle
    /\ result = NoResult
    /\ EnrichmentIdle
    /\ route = "none"
    /\ request = NoRequest
    /\ http = NoHttp
    /\ previous = NoResult

\* last minute of the clock
MaxClock == 6
\* number of times the order data changes
MaxVersion == 1
\* number of analytics requests in their handlers at a time
MaxReq == 2

\* const CACHE_EXPIRY = 5 * 60 * 1000, in minutes
CACHE_EXPIRY == 5
\* cron.schedule('*/5 * * * *'): every fifth minute
CronPeriod == 5

\* the routes behind checkCache
CachedPaths == {"/sales", "/popular-items", "/customer-insights"}

\* the property of analyticsCache a handler stores its result in
Slot(path) ==
    CASE path = "/sales" -> "salesData"
      [] path = "/popular-items" -> "popularItems"
      [] path = "/customer-insights" -> "customerInsights"

Null == [path |-> "null", version |-> 0]
Undefined == [path |-> "undefined", version |-> 0]
EmptyObject == [path |-> "{}", version |-> 0]

\* the object the cache starts as and is reset to; lastUpdated null is 0,
\* which the test `analyticsCache.lastUpdated &&` treats alike
ClearedCache ==
    [salesData |-> Null, popularItems |-> Null, customerInsights |-> Null,
     lastUpdated |-> 0]

\* mutant: the cache read by the property the handler of the route writes
LookupBySlot(c, key) == c[Slot(key)]

\* analyticsCache[key]
Lookup(c, key) == IF key \in DOMAIN c THEN c[key] ELSE Undefined

\* x || {}
OrEmptyObject(x) == IF x \in {Null, Undefined} THEN EmptyObject ELSE x

\* mutant: a cache of exactly CACHE_EXPIRY counts as fresh
FreshInclusive(c, t) == c.lastUpdated # 0 /\ t - c.lastUpdated <= CACHE_EXPIRY

\* the test of checkCache at time t
Fresh(c, t) == c.lastUpdated # 0 /\ t - c.lastUpdated < CACHE_EXPIRY

\* what the handler of path computes from the order data
Aggregate(path, version) == [path |-> path, version |-> version]

NoAnswer == [path |-> "", status |-> 0, data |-> Null, cached |-> FALSE]

\* the list s without its i-th member
Without(s, i) == SubSeq(s, 1, i - 1) \o SubSeq(s, i + 1, Len(s))

InitAnalytics ==
    /\ analyticsCache = ClearedCache
    /\ now = 1
    /\ orderStore = 0
    /\ reqs = << >>
    /\ sent = NoAnswer
    /\ AIIdle
    /\ OrderingIdle

\* a request arrives at a cached route and passes through checkCache: a
\* fresh cache answers it, otherwise the handler starts
CheckCache ==
    /\ Len(reqs) < MaxReq
    /\ \E path \in CachedPaths :
          IF Fresh(analyticsCache, now)
            THEN /\ sent' = [path |-> path, status |-> 200,
                             data |-> OrEmptyObject(Lookup(analyticsCache, path)),
                             cached |-> TRUE]
                 /\ UNCHANGED reqs
            ELSE /\ reqs' = Append(reqs, [path |-> path, arrived |-> now])
                 /\ UNCHANGED sent
    /\ UNCHANGED << analyticsCache, now, orderStore, outsideAnalytics >>

\* mutant: a handler waits for the handlers that started before it
HandlerCompletesInTurn(r) ==
    /\ r = 1
    /\ LET computed == Aggregate(reqs[r].path, orderStore)
       IN  /\ analyticsCache' = [analyticsCache EXCEPT ![Slot(reqs[r].path)] = computed,
                                                       !.lastUpdated = now]
           /\ sent' = [path |-> reqs[r].path, status |-> 200, data |-> computed,
                       cached |-> FALSE]
    /\ reqs' = Without(reqs, r)
    /\ UNCHANGED << now, orderStore, outsideAnalytics >>

\* the handler's aggregations succeed: the result is stored and sent
HandlerCompletes(r) ==
    /\ LET computed == Aggregate(reqs[r].path, orderStore)
       IN  /\ analyticsCache' = [analyticsCache EXCEPT ![Slot(reqs[r].path)] = computed,
                                                       !.lastUpdated = now]
           /\ sent' = [path |-> reqs[r].path, status |-> 200, data |-> computed,
                       cached |-> FALSE]
    /\ reqs' = Without(reqs, r)
    /\ UNCHANGED << now, orderStore, outsideAnalytics >>

\* an aggregation throws: the catch block answers 500, nothing is stored
HandlerFails(r) ==
    /\ sent' = [path |-> reqs[r].path, status |-> 500, data |-> Null,
                cached |-> FALSE]
    /\ reqs' = Without(reqs, r)
    /\ UNCHANGED << analyticsCache, now, orderStore, outsideAnalytics >>

\* DELETE /cache
ClearCache ==
    /\ analyticsCache # ClearedCache
    /\ analyticsCache' = ClearedCache
    /\ UNCHANGED << now, orderStore, reqs, sent, outsideAnalytics >>

\* the scheduled reset, in a minute that is a multiple of five
CronReset ==
    /\ now % CronPeriod = 0
    /\ analyticsCache # ClearedCache
    /\ analyticsCache' = ClearedCache
    /\ UNCHANGED << now, orderStore, reqs, sent, outsideAnalytics >>

\* a minute passes
Tick ==
    /\ now < MaxClock
    /\ now' = now + 1
    /\ UNCHANGED << analyticsCache, orderStore, reqs, sent, outsideAnalytics >>

\* an order is placed or changed: the aggregations will read other data
OrdersChange ==
    /\ orderStore < MaxVersion
    /\ orderStore' = orderStore + 1
    /\ UNCHANGED << analyticsCache, now, reqs, sent, outsideAnalytics >>

NextAnalytics ==
    \/ CheckCache
    \/ \E r \in 1..Len(reqs) : HandlerCompletes(r)
    \/ \E r \in 1..Len(reqs) : HandlerFails(r)
    \/ ClearCache
    \/ CronReset
    \/ Tick
    \/ OrdersChange

SpecAnalytics == InitAnalytics /\ [][NextAnalytics]_vars

-----------------------------------------------------------------------------
(* Properties of the analytics cache                                        *)

\* a request for path arrives in this step: the handler starts for it, or
\* checkCache answers it
Arrives(path) ==
    \/ reqs' = Append(reqs, [path |-> path, arrived |-> now])
    \/ sent' # sent /\ sent'.cached /\ sent'.path = path

\* the last response was computed by the handler of path, and the cache
\* still holds what it stored: lastUpdated is the time of that response
ComputedAndCached(path) ==
    /\ sent.path = path
    /\ sent.status = 200
    /\ ~ sent.cached
    /\ analyticsCache[Slot(path)] = sent.data

\* C12: a request to a cached endpoint that arrives less than 5 minutes
\* after an earlier request to the same endpoint computed and cached its
\* result, the cache not cleared in between, is answered with the payload
\* the earlier request computed.
C12_SecondGetsFirstPayload ==
    [][ \A path \in CachedPaths :
          ( /\ ComputedAndCached(path)
            /\ Arrives(path)
            /\ now - analyticsCache.lastUpdated < CACHE_EXPIRY )
          => /\ sent'.path = path
             /\ sent'.data = sent.data ]_vars

\* C13: a request that arrives 5 minutes or more after the cache's last
\* update, or when the cache is cleared, is not answered from the cache; the
\* handler runs, and when it answers with its result it has stored that
\* result and set lastUpdated to the current time.
C13_StaleCacheRecomputes ==
    [][ /\ \A path \in CachedPaths :
             ( /\ Arrives(path)
               /\ \/ analyticsCache.lastUpdated = 0
                  \/ now - analyticsCache.lastUpdated >= CACHE_EXPIRY )
             => /\ reqs' = Append(reqs, [path |-> path, arrived |-> now])
                /\ sent' = sent
        /\ \A r \in 1..Len(reqs) :
             ( /\ reqs' = Without(reqs, r)
               /\ sent'.path = reqs[r].path
               /\ sent'.status = 200 )
             => /\ ~ sent'.cached
                /\ sent'.data = Aggregate(reqs[r].path, orderStore)
                /\ analyticsCache'[Slot(reqs[r].path)] = sent'.data
                /\ analyticsCache'.lastUpdated = now ]_vars

\* a request has just arrived exactly 5 minutes after the cache's last
\* update, the cache not cleared, and is in its handler
C13_Witness ==
    \E r \in 1..Len(reqs) :
       /\ reqs[r].arrived = now
       /\ analyticsCache.lastUpdated # 0
       /\ now - analyticsCache.lastUpdated = CACHE_EXPIRY

-----------------------------------------------------------------------------
(* The order and menu routes (routes/orders.js, routes/menu.js) over the    *)
(* Order and MenuItem collections                                           *)
(*                                                                          *)
(* Money.  A price, a tip and a subtotal are in cents; tax and total are in *)
(* hundredths of a cent, so that 8% of a subtotal is a whole number.        *)
(* rating.average is a fraction num/den in lowest terms.  A document read   *)
(* by findById is a copy; save() writes the paths the handler modified.     *)

\* what the order and menu routes do not touch
outsideOrdering == << aiSide, analytics >>

\* number of requests to the order and menu routes
MaxCalls == 2

\* the ids requests name; "gone" is the id of no document
MenuIds == {"soup", "stew", "gone"}

RECURSIVE GCD(_, _)
GCD(a, b) == IF b = 0 THEN a ELSE GCD(b, a % b)

\* the fraction n/d in lowest terms
Fraction(n, d) == [num |-> n \div GCD(n, d), den |-> d \div GCD(n, d)]

\* rating: { average: 0, count: 0 }
NoRating == [average |-> Fraction(0, 1), count |-> 0]

\* a stored menu item, with the schema's defaults
StoredItem(availability, price) ==
    [exists |-> TRUE, availability |-> availability, price |-> price,
     popularity |-> 0, rating |-> NoRating]

NoItem ==
    [exists |-> FALSE, availability |-> "", price |-> 0, popularity |-> 0,
     rating |-> NoRating]

\* the MenuItem collection a run starts from
StoredMenu ==
    [soup |-> StoredItem("available", 1000),
     stew |-> StoredItem("available", 1250),
     gone |-> NoItem]

\* mutant: a limited item counts as available
isAvailableOrLimited(doc) == doc.availability \in {"available", "limited"}

\* menuItem.isAvailable()
isAvailable(doc) == doc.availability = "available"

\* an order item; customization is the list of the customizations' prices
OrderLine(id, quantity, price, customization) ==
    [menuItem |-> id, quantity |-> quantity, price |-> price,
     customization |-> customization]

RECURSIVE Sum(_)
Sum(s) == IF s = << >> THEN 0 ELSE s[1] + Sum(Tail(s))

\* the tax rate, in percent
TaxRate == 8

\* calculateTotals: subtotal, tax and total of a document
calculateTotals(doc) ==
    LET subtotal == Sum([i \in 1..Len(doc.items) |->
                           doc.items[i].price * doc.items[i].quantity
                             + Sum(doc.items[i].customization)])
        tax == subtotal * TaxRate
    IN  [doc EXCEPT !.subtotal = subtotal, !.tax = tax,
                    !.total = subtotal * 100 + tax + doc.tip * 100]

\* the order POST / stores: the totals are computed by the route
NewOrder(items, tip) ==
    LET subtotal == Sum([i \in 1..Len(items) |->
                           items[i].price * items[i].quantity
                             + Sum(items[i].customization)])
        tax == subtotal * TaxRate
    IN  [status |-> "pending", items |-> items, tip |-> tip,
         subtotal |-> subtotal, tax |-> tax,
         total |-> subtotal * 100 + tax + tip * 100, version |-> 0]

NoOrder ==
    [status |-> "", items |-> << >>, tip |-> 0, subtotal |-> 0, tax |-> 0,
     total |-> 0, version |-> 0]

\* the orders already stored when a run starts
StoredOrders ==
    { [NewOrder(<< OrderLine("soup", 2, 1000, << >>),
                   OrderLine("stew", 1, 1250, << 50 >>) >>, 0) EXCEPT !.status = st] :
        st \in {"pending", "preparing", "delivered"} }

\* mutant: save() writes the whole document as the handler holds it
DocumentSaveWhole(stored, doc, paths) == doc

\* document.save(): the modified paths are written, the others stay
DocumentSave(stored, doc, paths) ==
    [f \in DOMAIN stored |-> IF f \in paths THEN doc[f] ELSE stored[f]]

\* the paths addItem and removeItem set besides the array
TotalPaths == {"subtotal", "tax", "total"}

\* mutant: the save after items.push writes the array as the handler holds it
SavePushedWhole(stored, doc) ==
    [DocumentSave(stored, doc, TotalPaths \cup {"items"}) EXCEPT !.version = @ + 1]

\* document.save() after items.push(orderItem): Mongoose sends the pushed
\* item as { $push: { items } }, sets the other modified paths and
\* increments the version key __v; the update does not ask for a version
SavePushed(stored, doc) ==
    [DocumentSave(stored, doc, TotalPaths) EXCEPT
        !.items = Append(@, doc.items[Len(doc.items)]),
        !.version = @ + 1]

\* document.save() after items.splice(itemIndex, 1): Mongoose sets the whole
\* array and asks for the version key the document was read with; when the
\* stored version differs no document matches and save() throws a
\* VersionError
VersionError(stored, doc) == stored.version # doc.version

\* the save of a spliced array that found its version
SaveSpliced(stored, doc) ==
    [DocumentSave(stored, doc, TotalPaths \cup {"items"}) EXCEPT !.version = @ + 1]

\* { $inc: { popularity: 1 } } on the document with this id, if there is one
IncrementPopularity(m, id) ==
    IF m[id].exists THEN [m EXCEPT ![id].popularity = @ + 1] ELSE m

\* updateRating: the document after the method's assignments
updateRating(doc, newRating) ==
    LET count == doc.rating.count + 1
        total == Fraction(doc.rating.average.num * doc.rating.count
                            + newRating * doc.rating.average.den,
                          doc.rating.average.den)
    IN  [doc EXCEPT !.rating = [average |-> Fraction(total.num, total.den * count),
                                 count |-> count]]

\* the bodies of POST /orders: the items and the tip
CreateBodies ==
    { [items |-> << >>, tip |-> 0],
      [items |-> << [menuItemId |-> "soup", quantity |-> 1] >>, tip |-> 150],
      [items |-> << [menuItemId |-> "soup", quantity |-> 2],
                    [menuItemId |-> "soup", quantity |-> 1] >>, tip |-> 0],
      [items |-> << [menuItemId |-> "soup", quantity |-> 1],
                    [menuItemId |-> "stew", quantity |-> 1] >>, tip |-> 0],
      [items |-> << [menuItemId |-> "soup", quantity |-> 1],
                    [menuItemId |-> "gone", quantity |-> 1] >>, tip |-> 0] }

\* the requests to POST /orders/:id/items; order 0 is the id of no order
AddRequests ==
    { [order |-> 1, item |-> "soup", quantity |-> 1],
      [order |-> 1, item |-> "stew", quantity |-> 1],
      [order |-> 1, item |-> "gone", quantity |-> 1],
      [order |-> 0, item |-> "soup", quantity |-> 1],
      [order |-> 1, item |-> "soup", quantity |-> 0] }

\* the requests to POST /menu/:id/rate
RateRequests ==
    { [item |-> "soup", rating |-> 0], [item |-> "soup", rating |-> 1],
      [item |-> "soup", rating |-> 5], [item |-> "soup", rating |-> 6],
      [item |-> "stew", rating |-> 5], [item |-> "gone", rating |-> 5] }

\* the bodies of PUT /menu/:id: a new price, a new availability, and a body
\* with a key updateMenuItemSchema does not describe
UpdateBodies ==
    { [key |-> "price", price |-> 1200, availability |-> ""],
      [key |-> "availability", price |-> 0, availability |-> "limited"],
      [key |-> "popularity", price |-> 0, availability |-> ""] }

\* the requests to PUT /menu/:id
UpdateRequests ==
    { [item |-> "soup", body |-> b] : b \in UpdateBodies }
      \cup { [item |-> "gone", body |-> b] : b \in { x \in UpdateBodies : x.key = "price" } }

\* the item indexes of DELETE /orders/:id/items/:itemIndex
ItemIndexes == {0, 1, 5}

NoCall ==
    [route |-> "", pc |-> "idle", order |-> 0, item |-> "", body |-> << >>,
     quantity |-> 0, itemIndex |-> 0, rating |-> 0, built |-> << >>, tip |-> 0,
     k |-> 0, loaded |-> NoOrder,
     held |-> NoItem, status |-> 0, error |-> << >>]

\* the response is sent
Answered(call, status, error) ==
    [call EXCEPT !.pc = "done", !.status = status, !.error = error]

InitOrdering ==
    /\ menu = StoredMenu
    /\ orders \in { << o >> : o \in StoredOrders }
    /\ calls = [c \in 1..MaxCalls |-> NoCall]
    /\ AIIdle
    /\ AnalyticsIdle

\* the next request takes the first free place
Free(c) ==
    /\ calls[c].pc = "idle"
    /\ \A q \in 1..(c - 1) : calls[q].pc # "idle"

\* POST /orders, one turn of the validation loop: findById, the two checks,
\* and the order item pushed
CheckedLine(call) ==
    LET line == call.body[call.k]
        doc == menu[line.menuItemId]
    IN  IF ~ doc.exists
          THEN Answered(call, 404, << "Menu item with ID not found" >>)
        ELSE IF ~ isAvailable(doc)
          THEN Answered(call, 400, << "Menu item is not available" >>)
        ELSE [call EXCEPT !.built = Append(@, OrderLine(line.menuItemId,
                                                        line.quantity, doc.price, << >>)),
                          !.k = IF call.k = Len(call.body) THEN 1 ELSE @ + 1,
                          !.pc = IF call.k = Len(call.body) THEN "save" ELSE "check"]

\* POST /orders arrives: the body is validated and the first item looked up
CreateOrderArrives(c) ==
    /\ Free(c)
    /\ \E b \in CreateBodies :
          LET call == [NoCall EXCEPT !.route = "POST /orders", !.body = b.items,
                                     !.tip = b.tip, !.k = 1]
          IN  calls' = [calls EXCEPT ![c] =
                          IF Len(b.items) = 0
                            THEN Answered(call, 400, << "Validation error" >>)
                            ELSE CheckedLine(call)]
    /\ UNCHANGED << menu, orders, outsideOrdering >>

\* POST /orders: the next item is looked up
CreateOrderChecks(c) ==
    /\ calls[c].route = "POST /orders" /\ calls[c].pc = "check"
    /\ calls' = [calls EXCEPT ![c] = CheckedLine(calls[c])]
    /\ UNCHANGED << menu, orders, outsideOrdering >>

\* POST /orders: order.save()
CreateOrderSaves(c) ==
    /\ calls[c].route = "POST /orders" /\ calls[c].pc = "save"
    /\ orders' = Append(orders, NewOrder(calls[c].built, calls[c].tip))
    /\ calls' = [calls EXCEPT ![c].order = Len(orders) + 1, ![c].pc = "increment"]
    /\ UNCHANGED << menu, outsideOrdering >>

\* POST /orders, one turn of the popularity loop
CreateOrderIncrements(c) ==
    /\ calls[c].route = "POST /orders" /\ calls[c].pc = "increment"
    /\ menu' = IncrementPopularity(menu, calls[c].built[calls[c].k].menuItem)
    /\ calls' = [calls EXCEPT ![c].k = @ + 1,
                              ![c].pc = IF calls[c].k = Len(calls[c].built)
                                          THEN "populate" ELSE "increment"]
    /\ UNCHANGED << orders, outsideOrdering >>

\* POST /orders: the order is populated and sent with 201
CreateOrderResponds(c) ==
    /\ calls[c].route = "POST /orders" /\ calls[c].pc = "populate"
    /\ calls' = [calls EXCEPT ![c] = Answered(calls[c], 201, << >>)]
    /\ UNCHANGED << menu, orders, outsideOrdering >>

\* Order.findById(id): the stored order, if there is one
Stored(o) == o \in 1..Len(orders)

\* POST /orders/:id/items arrives: the body is checked, the order is read
AddItemLoadsOrder(c) ==
    /\ Free(c)
    /\ \E a \in AddRequests :
          LET o == a.order
              call == [NoCall EXCEPT !.route = "POST /orders/:id/items", !.order = o,
                                     !.item = a.item, !.quantity = a.quantity]
          IN  calls' = [calls EXCEPT ![c] =
                IF a.quantity = 0
                  THEN Answered(call, 400, << "Menu item ID and quantity are required" >>)
                ELSE IF ~ Stored(o)
                  THEN Answered(call, 404, << "Order not found" >>)
                ELSE IF orders[o].status # "pending"
                  THEN Answered(call, 400, << "Cannot modify order that is not pending" >>)
                ELSE [call EXCEPT !.pc = "item", !.loaded = orders[o]]]
    /\ UNCHANGED << menu, orders, outsideOrdering >>

\* POST /orders/:id/items: the menu item is read; addItem pushes the item,
\* computes the totals and calls save()
AddItemLoadsItem(c) ==
    /\ calls[c].route = "POST /orders/:id/items" /\ calls[c].pc = "item"
    /\ LET doc == menu[calls[c].item]
       IN  calls' = [calls EXCEPT ![c] =
             IF ~ doc.exists
               THEN Answered(calls[c], 404, << "Menu item not found" >>)
             ELSE IF ~ isAvailable(doc)
               THEN Answered(calls[c], 400, << "Menu item is not available" >>)
             ELSE [calls[c] EXCEPT
                     !.pc = "save",
                     !.loaded = calculateTotals(
                        [@ EXCEPT !.items = Append(@, OrderLine(calls[c].item,
                                                   calls[c].quantity, doc.price, << >>))])]]
    /\ UNCHANGED << menu, orders, outsideOrdering >>

\* POST /orders/:id/items: the save is written, the order is sent
AddItemSaves(c) ==
    /\ calls[c].route = "POST /orders/:id/items" /\ calls[c].pc = "save"
    /\ orders' = [orders EXCEPT ![calls[c].order] = SavePushed(@, calls[c].loaded)]
    /\ calls' = [calls EXCEPT ![c] = Answered(calls[c], 200, << >>)]
    /\ UNCHANGED << menu, outsideOrdering >>

\* removeItem(itemIndex) throws
RemoveThrows(doc, itemIndex) == ~ (itemIndex >= 0 /\ itemIndex < Len(doc.items))

\* DELETE /orders/:id/items/:itemIndex arrives: the order is read; removeItem
\* splices, computes the totals and calls save(), or throws, and then the
\* catch block answers with the error's message
RemoveItemLoads(c) ==
    /\ Free(c)
    /\ \E o \in 0..Len(orders), itemIndex \in ItemIndexes :
          LET call == [NoCall EXCEPT !.route = "DELETE /orders/:id/items/:itemIndex",
                                     !.order = o, !.itemIndex = itemIndex]
          IN  calls' = [calls EXCEPT ![c] =
                IF ~ Stored(o)
                  THEN Answered(call, 404, << "Order not found" >>)
                ELSE IF orders[o].status # "pending"
                  THEN Answered(call, 400, << "Cannot modify order that is not pending" >>)
                ELSE IF RemoveThrows(orders[o], itemIndex)
                  THEN Answered(call, 500, << "Invalid item index" >>)
                ELSE [call EXCEPT
                        !.pc = "save",
                        !.loaded = calculateTotals(
                           [orders[o] EXCEPT !.items = Without(@, itemIndex + 1)])]]
    /\ UNCHANGED << menu, orders, outsideOrdering >>

\* DELETE /orders/:id/items/:itemIndex: the save is written and the order is
\* sent, or the save throws and the catch block answers with its message
RemoveItemSaves(c) ==
    /\ calls[c].route = "DELETE /orders/:id/items/:itemIndex" /\ calls[c].pc = "save"
    /\ IF VersionError(orders[calls[c].order], calls[c].loaded)
         THEN /\ calls' = [calls EXCEPT ![c] =
                             Answered(calls[c], 500, << "No matching document found" >>)]
              /\ UNCHANGED orders
         ELSE /\ orders' = [orders EXCEPT ![calls[c].order] =
                              SaveSpliced(@, calls[c].loaded)]
              /\ calls' = [calls EXCEPT ![c] = Answered(calls[c], 200, << >>)]
    /\ UNCHANGED << menu, outsideOrdering >>

\* PATCH /orders/:id/cancel arrives: the order is read; updateStatus sets the
\* status and calls save()
CancelLoads(c) ==
    /\ Free(c)
    /\ \E o \in 0..Len(orders) :
          LET call == [NoCall EXCEPT !.route = "PATCH /orders/:id/cancel", !.order = o]
          IN  calls' = [calls EXCEPT ![c] =
                IF ~ Stored(o)
                  THEN Answered(call, 404, << "Order not found" >>)
                ELSE IF orders[o].status = "delivered"
                  THEN Answered(call, 400, << "Cannot cancel delivered order" >>)
                ELSE [call EXCEPT !.pc = "save",
                                  !.loaded = [orders[o] EXCEPT !.status = "cancelled"]]]
    /\ UNCHANGED << menu, orders, outsideOrdering >>

\* PATCH /orders/:id/cancel: the save is written, the order is sent
CancelSaves(c) ==
    /\ calls[c].route = "PATCH /orders/:id/cancel" /\ calls[c].pc = "save"
    /\ orders' = [orders EXCEPT ![calls[c].order] =
                    DocumentSave(@, calls[c].loaded, {"status"})]
    /\ calls' = [calls EXCEPT ![c] = Answered(calls[c], 200, << >>)]
    /\ UNCHANGED << menu, outsideOrdering >>

\* POST /menu/:id/rate arrives: the rating is checked, the item is read;
\* updateRating sets rating.average and rating.count and calls save()
RateLoads(c) ==
    /\ Free(c)
    /\ \E a \in RateRequests :
          LET id == a.item
              rating == a.rating
              call == [NoCall EXCEPT !.route = "POST /menu/:id/rate", !.item = id,
                                     !.rating = rating]
          IN  calls' = [calls EXCEPT ![c] =
                IF rating = 0 \/ rating < 1 \/ rating > 5
                  THEN Answered(call, 400, << "Rating must be between 1 and 5" >>)
                ELSE IF ~ menu[id].exists
                  THEN Answered(call, 404, << "Menu item not found" >>)
                ELSE [call EXCEPT !.pc = "save",
                                  !.held = updateRating(menu[id], rating)]]
    /\ UNCHANGED << menu, orders, outsideOrdering >>

\* POST /menu/:id/rate: the save is written, the new rating is sent
RateSaves(c) ==
    /\ calls[c].route = "POST /menu/:id/rate" /\ calls[c].pc = "save"
    /\ menu' = [menu EXCEPT ![calls[c].item] =
                  DocumentSave(@, calls[c].held, {"rating"})]
    /\ calls' = [calls EXCEPT ![c] = Answered(calls[c], 200, << >>)]
    /\ UNCHANGED << orders, outsideOrdering >>

\* PUT /menu/:id: the body is validated against updateMenuItemSchema, and
\* findByIdAndUpdate sets the keys of the body
UpdateMenuItem(c) ==
    /\ Free(c)
    /\ \E a \in UpdateRequests :
          LET id == a.item
              b == a.body
              call == [NoCall EXCEPT !.route = "PUT /menu/:id", !.item = id]
          IN  IF b.key \notin {"price", "availability"}
                THEN /\ calls' = [calls EXCEPT ![c] =
                                    Answered(call, 400, << "Validation error" >>)]
                     /\ UNCHANGED menu
              ELSE IF ~ menu[id].exists
                THEN /\ calls' = [calls EXCEPT ![c] =
                                    Answered(call, 404, << "Menu item not found" >>)]
                     /\ UNCHANGED menu
              ELSE /\ calls' = [calls EXCEPT ![c] = Answered(call, 200, << >>)]
                   /\ menu' = [menu EXCEPT ![id] =
                                 IF b.key = "price"
                                   THEN [@ EXCEPT !.price = b.price]
                                   ELSE [@ EXCEPT !.availability = b.availability]]
    /\ UNCHANGED << orders, outsideOrdering >>

NextOrdering ==
    \/ \E c \in 1..MaxCalls : CreateOrderArrives(c)
    \/ \E c \in 1..MaxCalls : CreateOrderChecks(c)
    \/ \E c \in 1..MaxCalls : CreateOrderSaves(c)
    \/ \E c \in 1..MaxCalls : CreateOrderIncrements(c)
    \/ \E c \in 1..MaxCalls : CreateOrderResponds(c)
    \/ \E c \in 1..MaxCalls : AddItemLoadsOrder(c)
    \/ \E c \in 1..MaxCalls : AddItemLoadsItem(c)
    \/ \E c \in 1..MaxCalls : AddItemSaves(c)
    \/ \E c \in 1..MaxCalls : RemoveItemLoads(c)
    \/ \E c \in 1..MaxCalls : RemoveItemSaves(c)
    \/ \E c \in 1..MaxCalls : CancelLoads(c)
    \/ \E c \in 1..MaxCalls : CancelSaves(c)
    \/ \E c \in 1..MaxCalls : RateLoads(c)
    \/ \E c \in 1..MaxCalls : RateSaves(c)
    \/ \E c \in 1..MaxCalls : UpdateMenuItem(c)

SpecOrdering == InitOrdering /\ [][NextOrdering]_vars

-----------------------------------------------------------------------------
(* Properties of the order and menu routes                                  *)

\* the fixed message of a route's catch block
GenericMessage(r) ==
    CASE r = "POST /orders" -> << "Failed to create order" >>
      [] r = "POST /orders/:id/items" -> << "Failed to add item to order" >>
      [] r = "DELETE /orders/:id/items/:itemIndex" -> << "Failed to remove item from order" >>
      [] r = "PATCH /orders/:id/cancel" -> << "Failed to cancel order" >>
      [] r = "POST /menu/:id/rate" -> << "Failed to submit rating" >>
      [] r = "PUT /menu/:id" -> << "Failed to update menu item" >>

\* C14: every 500 response carries the fixed generic message of its route,
\* whatever error was thrown.
C14_GenericFailureMessage ==
    \A c \in 1..MaxCalls :
       calls[c].status = 500 => calls[c].error = GenericMessage(calls[c].route)

\* the number of $inc updates request c has made on item id
Increments(c, id) ==
    IF calls[c].route = "POST /orders" /\ calls[c].pc \in {"increment", "populate", "done"}
         /\ calls[c].status \in {0, 201}
      THEN Cardinality({ j \in 1..Len(calls[c].built) :
                           /\ calls[c].built[j].menuItem = id
                           /\ (calls[c].pc = "increment" => j < calls[c].k) })
      ELSE 0

\* the number of order lines of request c that reference item id
LinesOf(c, id) ==
    Cardinality({ j \in 1..Len(calls[c].body) : calls[c].body[j].menuItemId = id })

\* C16: popularity never decreases under any interleaving of order creation,
\* adding and removing order items, cancelling, rating and menu update, and
\* it counts the order lines of the created orders: every successful order
\* creation has raised the popularity of each item by one for each of its
\* lines that references the item.
C16_PopularityCountsOrderLines ==
    /\ [] \A id \in MenuIds :
            /\ menu[id].exists =>
                 menu[id].popularity = Sum([c \in 1..MaxCalls |-> Increments(c, id)])
            /\ \A c \in 1..MaxCalls :
                 (calls[c].route = "POST /orders" /\ calls[c].status = 201)
                 => Increments(c, id) = LinesOf(c, id)
    /\ [][ \A id \in MenuIds : menu'[id].popularity >= menu[id].popularity ]_vars

\* an order with two lines for the same item was created while a rating of
\* that item was read before and written after the increments
C16_Witness ==
    \E c, d \in 1..MaxCalls :
       /\ calls[c].route = "POST /orders" /\ calls[c].status = 201
       /\ LinesOf(c, "soup") = 2
       /\ calls[d].route = "POST /menu/:id/rate" /\ calls[d].status = 200
       /\ calls[d].item = "soup"
       /\ calls[d].held.popularity = 0
       /\ menu["soup"].popularity = 2
       /\ menu["soup"].rating.count = 1

-----------------------------------------------------------------------------
(* getRecommendations called twice with the same arguments                  *)

\* two items as the schema's defaults leave them: rating { average: 0,
\* count: 0 } and popularity 0
NewItems ==
    { MenuItem(6, "main", 1200, <<Herb>>, {"vegetarian"}, "available", 0, 0, 0),
      MenuItem(7, "main", 1400, <<Tofu>>, {"vegetarian", "vegan"}, "available",
               0, 0, 0) }

RepeatCatalogs == { {}, Palette, NewItems, Palette \cup NewItems }

RepeatPreferences ==
    { DefaultPreferences, BadPreferences,
      [DefaultPreferences EXCEPT !.category = "main"],
      [DefaultPreferences EXCEPT !.category = "salad"] }

InitRepeat ==
    /\ op = "getRecommendations"
    /\ pc = "start"
    /\ catalog \in RepeatCatalogs
    /\ preferences \in RepeatPreferences
    /\ customerHistory \in { << >>, << MainOrder >>, << DessertOrder >> }
    /\ candidates = << >>
    /\ pass = "none"
    /\ ranked = NotRanked
    /\ ScoringIdle
    /\ result = NoResult
    /\ EnrichmentIdle
    /\ OutsideServiceIdle

\* the caller keeps what the first call returned and calls again with the
\* same preferences and history
CallAgain ==
    /\ op = "getRecommendations" /\ pc = "done"
    /\ previous = NoResult
    /\ previous' = result
    /\ pc' = "start"
    /\ candidates' = << >>
    /\ pass' = "none"
    /\ ranked' = NotRanked
    /\ result' = NoResult
    /\ UNCHANGED << op, catalog, preferences, customerHistory, enrichment, scoring,
                    route, request, http, outsideAI >>

NextRepeat ==
    \/ GetRecommendationsCatch
    \/ GetRecommendationsFind
    \/ GetRecommendationsRelax
    \/ GetRecommendationsRank
    \/ GetRecommendationsReturn
    \/ CallAgain

SpecRepeat == InitRepeat /\ [][NextRepeat]_vars

\* C15: two calls of getRecommendations with the same preferences and
\* history over an unchanged catalog return the same recommendations in the
\* same order, and no call changes a menu item or a history entry.
C15_SameAnswerTwice ==
    /\ [] ( (pc = "done" /\ previous # NoResult) => result = previous )
    /\ [][ catalog' = catalog /\ customerHistory' = customerHistory ]_vars

-----------------------------------------------------------------------------
(* rankByAI step by step: the analysis, the scores, the sort                *)

\* longest candidate list scored
MaxScored == 3

Oat       == Ingredient(<<"o","a","t">>, {})
Rye       == Ingredient(<<"r","y","e">>, {"gluten"})
Fig       == Ingredient(<<"f","i","g">>, {})
Yam       == Ingredient(<<"y","a","m">>, {})
Pea       == Ingredient(<<"p","e","a">>, {})
Egg       == Ingredient(<<"e","g","g">>, {"eggs"})
HerbLower == Ingredient(<<"h","e","r","b">>, {})

DessertOnly == Order(<< OrderItem(TRUE, "dessert", <<Nut>>, 2500) >>)

\* five purchases in category main, one in dessert
FiveMainOneDessert ==
    << MainOrder, MainOrder, DessertOnly, MainOrder, MainOrder, MainOrder >>

\* five categories (two tied at the top, three tied at the cut), twelve
\* ingredient names, one purchase whose menu item is gone
VariedHistory ==
    << Order(<< OrderItem(TRUE, "soup", <<Oat, Rye>>, 1200),
                OrderItem(TRUE, "main", <<Tofu, Herb>>, 1000) >>),
       Order(<< OrderItem(TRUE, "salad", <<Kale, HerbLower, Fig>>, 900),
                OrderItem(TRUE, "salad", <<Kale, Yam>>, 950),
                OrderItem(FALSE, "", << >>, 300) >>),
       Order(<< OrderItem(TRUE, "main", <<Hen, Brie>>, 2000),
                OrderItem(TRUE, "dessert", <<Nut, Pea>>, 600),
                OrderItem(TRUE, "side", <<Egg, Oat>>, 400) >>) >>

ScoreHistories ==
    { << >>, FiveMainOneDessert, VariedHistory, << MainOrder >>, << DessertOrder >>,
      << Order(<< >>) >>, << BadOrder >>, << MainOrder, BadOrder >> }

\* candidates that differ in category only
Twin(i, cat) ==
    MenuItem(i, cat, 1500, <<Tofu, Kale>>, {}, "available", 45, 10, 3)

ScoreCandidates ==
    { Twin(21, "main"), Twin(22, "dessert"), Twin(23, "beverage"),
      MenuItem(24, "main", 800, <<Herb, HerbLower>>, {}, "available", 40, 2, 1),
      MenuItem(25, "salad", 799, << >>, {}, "available", 0, 0, 0),
      MenuItem(26, "soup", 3000, <<Oat, Nut>>, {}, "limited", 31, 7, 12),
      MenuItem(27, "side", 3001, <<Brie, Pea>>, {}, "available", 50, 1, 0),
      [Twin(28, "main") EXCEPT !.missing = {"rating"}] }

InitScore ==
    /\ op = "rankByAI"
    /\ pc = "rank"
    /\ catalog = {}
    /\ preferences = DefaultPreferences
    /\ customerHistory \in ScoreHistories
    /\ candidates \in SeqsUpTo(ScoreCandidates, MaxScored)
    /\ pass = "none"
    /\ ranked = NotRanked
    /\ ScoringIdle
    /\ result = NoResult
    /\ EnrichmentIdle
    /\ OutsideServiceIdle

\* const historyAnalysis = this.analyzeCustomerHistory(customerHistory)
RankByAIAnalyze ==
    /\ op = "rankByAI" /\ pc = "rank"
    /\ historyAnalysis = NoAnalysis
    /\ ~ AnalyzeThrows(customerHistory)
    /\ historyAnalysis' = analyzeCustomerHistory(customerHistory)
    /\ UNCHANGED << op, pc, catalog, preferences, customerHistory, candidates, pass,
                    ranked, scoredItems, result, enrichment, outsideService >>

\* const scoredItems = items.map(item => ({ item, score }))
RankByAIScore ==
    /\ op = "rankByAI" /\ pc = "rank"
    /\ historyAnalysis # NoAnalysis
    /\ \A i \in 1..Len(candidates) : ~ ScoreThrows(candidates[i])
    /\ scoredItems' = [i \in 1..Len(candidates) |->
                         [ item  |-> candidates[i],
                           score |-> Score(candidates[i], historyAnalysis) ]]
    /\ pc' = "sort"
    /\ UNCHANGED << op, catalog, preferences, customerHistory, candidates, pass,
                    ranked, historyAnalysis, result, enrichment, outsideService >>

\* return scoredItems.sort((a, b) => b.score - a.score).map(scored => scored.item)
RankByAISort ==
    /\ op = "rankByAI" /\ pc = "sort"
    /\ LET sorted == SortDesc(scoredItems)
       IN  ranked' = [ called |-> TRUE,
                       items  |-> [i \in 1..Len(sorted) |-> sorted[i].item],
                       caught |-> FALSE, threw |-> FALSE ]
    /\ pc' = "done"
    /\ UNCHANGED << op, catalog, preferences, customerHistory, candidates, pass,
                    scoring, result, enrichment, outsideService >>

\* the analysis or a score throws: the catch block returns items as they came
RankByAICatch ==
    /\ op = "rankByAI" /\ pc = "rank"
    /\ \/ historyAnalysis = NoAnalysis /\ AnalyzeThrows(customerHistory)
       \/ /\ historyAnalysis # NoAnalysis
          /\ \E i \in 1..Len(candidates) : ScoreThrows(candidates[i])
    /\ ranked' = [ called |-> TRUE, items |-> candidates,
                   caught |-> TRUE, threw |-> FALSE ]
    /\ pc' = "done"
    /\ UNCHANGED << op, catalog, preferences, customerHistory, candidates, pass,
                    scoring, result, enrichment, outsideService >>

NextScore ==
    \/ RankByAIAnalyze
    \/ RankByAIScore
    \/ RankByAISort
    \/ RankByAICatch

SpecScore == InitScore /\ [][NextScore]_vars

\* the steps return what rankByAI returns
StepsAgreeWithRankByAI ==
    (op = "rankByAI" /\ pc = "done") =>
        LET r == rankByAI(candidates, customerHistory)
        IN  /\ ranked.items = r.items
            /\ ranked.caught = r.caught

\* the categories counted, in the order the history holds them
CategoryKeys(history) ==
    LET items == HistoryItems(history)
        Counted(it) == it.menuItem.present /\ it.menuItem.category # ""
        kept == SelectSeq(items, Counted)
    IN  [i \in 1..Len(kept) |-> kept[i].menuItem.category]

\* the lower-cased ingredient names counted, in the order the history holds them
IngredientKeys(history) ==
    LET items == HistoryItems(history)
        Counted(it) == it.menuItem.present
        kept == SelectSeq(items, Counted)
    IN  Flatten([i \in 1..Len(kept) |->
                   [j \in 1..Len(kept[i].menuItem.ingredients) |->
                      toLowerCase(kept[i].menuItem.ingredients[j].name)]])

\* the prices of all purchased items
ObservedPrices(history) ==
    LET items == HistoryItems(history)
    IN  { items[i].price : i \in 1..Len(items) }

\* list holds the (up to) k most frequent keys, most frequent first, keys of
\* equal count in the order they are first seen
IsTopList(list, keys, k) ==
    LET Count(x)  == Cardinality({ j \in 1..Len(keys) : keys[j] = x })
        First(x)  == Min({ j \in 1..Len(keys) : keys[j] = x })
        Before(x, y) == \/ Count(x) > Count(y)
                        \/ Count(x) = Count(y) /\ First(x) < First(y)
    IN  /\ Range(list) \subseteq Range(keys)
        /\ Len(list) = Min({ k, Cardinality(Range(keys)) })
        /\ \A i, j \in 1..Len(list) : i < j => Before(list[i], list[j])
        /\ \A x \in Range(keys) \ Range(list) :
              \A i \in 1..Len(list) : Before(list[i], x)

Derived == historyAnalysis # NoAnalysis

InTop(key, list) == \E k \in 1..Len(list) : list[k] = key

\* the score the scoring rule gives, in hundredths
ExpectedScore(item, analysis) ==
    item.rating.average * 4 + item.popularity * 10
      + (IF InTop(item.category, analysis.preferredCategories) THEN 30 ELSE 0)
      + 20 * Cardinality({ j \in 1..Len(item.ingredients) :
                 InTop(toLowerCase(item.ingredients[j].name),
                       analysis.preferredIngredients) })
      + (IF /\ analysis.priceRange.min <= item.price * 10
            /\ item.price * 10 <= analysis.priceRange.max
           THEN 20 ELSE 0)

\* C19: every score is rating.average*0.4 + popularity*0.1, plus 0.3 for a
\* category among the top categories, plus 0.2 per ingredient whose
\* lower-cased name is among the top ingredients, plus 0.2 for a price
\* inside the price band, bounds included
C19_ScoreFormula ==
    \A i \in 1..Len(scoredItems) :
        scoredItems[i].score = ExpectedScore(scoredItems[i].item, historyAnalysis)

\* a scored candidate sits on the lower bound of the band, another on the
\* upper bound, one has two matching ingredients and a preferred category
C19_Witness ==
    /\ \E i \in 1..Len(scoredItems) :
          /\ scoredItems[i].item.price * 10 = historyAnalysis.priceRange.min
          /\ scoredItems[i].score = 40 * 4 + 1 * 10 + 30 + 2 * 20 + 20
    /\ \E i \in 1..Len(scoredItems) :
          /\ scoredItems[i].item.price * 10 = historyAnalysis.priceRange.max
          /\ scoredItems[i].item.price * 10 > 0
    /\ \E i \in 1..Len(scoredItems) :
          scoredItems[i].item.price * 10 > historyAnalysis.priceRange.max

\* the number of purchases of the history in a category
Purchases(history, cat) ==
    LET keys == CategoryKeys(history)
    IN  Cardinality({ j \in 1..Len(keys) : keys[j] = cat })

\* the history of the example: 5 purchases in main, 1 in dessert, no other
ExampleHistory(history) ==
    /\ Purchases(history, "main") = 5
    /\ Purchases(history, "dessert") = 1
    /\ Len(HistoryItems(history)) = 6

\* same rating, popularity, ingredients and price
OtherwiseIdentical(x, y) ==
    /\ x.rating = y.rating
    /\ x.popularity = y.popularity
    /\ x.ingredients = y.ingredients
    /\ x.price = y.price

\* the scores of two scored candidates differ by d hundredths, whenever the
\* first has category cx, the second cy, and they are otherwise identical
ScoresApart(cx, cy, d) ==
    \A i, j \in 1..Len(scoredItems) :
        ( /\ scoredItems[i].item.category = cx
          /\ scoredItems[j].item.category = cy
          /\ OtherwiseIdentical(scoredItems[i].item, scoredItems[j].item) )
        => scoredItems[i].score = scoredItems[j].score + d

\* C18: with 5 purchases in main and 1 in dessert, main is a top category
\* and a main candidate scores exactly 0.3 above an otherwise identical
\* dessert candidate
C18_MainAboveDessertBy03 ==
    (scoredItems # << >> /\ ExampleHistory(customerHistory)) =>
        /\ InTop("main", historyAnalysis.preferredCategories)
        /\ ScoresApart("main", "dessert", 30)

\* C18, amended: with 5 purchases in main and 1 in dessert, both are top
\* categories; a main candidate scores the same as an otherwise identical
\* dessert candidate, and exactly 0.3 above an otherwise identical candidate
\* of a category the history does not hold
C18_MainAboveUnorderedCategoryBy03 ==
    (scoredItems # << >> /\ ExampleHistory(customerHistory)) =>
        /\ InTop("main", historyAnalysis.preferredCategories)
        /\ InTop("dessert", historyAnalysis.preferredCategories)
        /\ ScoresApart("main", "dessert", 0)
        /\ \A cat \in { scoredItems[i].item.category : i \in 1..Len(scoredItems) } :
              Purchases(customerHistory, cat) = 0 => ScoresApart("main", cat, 30)

\* the example history was analysed and a main, a dessert and a beverage
\* candidate, otherwise identical, were scored
C18_Witness ==
    /\ ExampleHistory(customerHistory)
    /\ \E i, j, k \in 1..Len(scoredItems) :
          /\ scoredItems[i].item.category = "main"
          /\ scoredItems[j].item.category = "dessert"
          /\ scoredItems[k].item.category = "beverage"
          /\ OtherwiseIdentical(scoredItems[i].item, scoredItems[j].item)
          /\ OtherwiseIdentical(scoredItems[i].item, scoredItems[k].item)
          /\ scoredItems[i].score = scoredItems[k].score + 30

\* the ways to lay n input positions out as n output positions
Layouts(n) ==
    { f \in [1..n -> 1..n] : \A i, j \in 1..n : i # j => f[i] # f[j] }

Sorted == op = "rankByAI" /\ pc = "done" /\ ~ ranked.caught

\* C21: the output of rankByAI is the input laid out by descending score,
\* and candidates of equal score keep the relative order of the input
C21_DescendingAndStable ==
    Sorted =>
        \E f \in Layouts(Len(scoredItems)) :
            /\ Len(ranked.items) = Len(scoredItems)
            /\ \A p \in 1..Len(scoredItems) :
                  ranked.items[p] = scoredItems[f[p]].item
            /\ \A p, q \in 1..Len(scoredItems) :
                  p < q =>
                     \/ scoredItems[f[p]].score > scoredItems[f[q]].score
                     \/ /\ scoredItems[f[p]].score = scoredItems[f[q]].score
                        /\ f[p] < f[q]

\* the input held two different candidates of equal score and, behind them,
\* one of a higher score that the sort moved to the front
C21_Witness ==
    /\ Sorted
    /\ Len(scoredItems) = 3
    /\ scoredItems[1].score = scoredItems[2].score
    /\ scoredItems[1].item # scoredItems[2].item
    /\ scoredItems[3].score > scoredItems[1].score
    /\ ranked.items = << scoredItems[3].item, scoredItems[1].item,
                         scoredItems[2].item >>

-----------------------------------------------------------------------------
(* The spice level in the primary filter                                    *)

\* the primary find has run
PrimaryFound == op = "getRecommendations" /\ pass = "primary"

\* what the primary filter asks for apart from the spice level
ApartFromSpice(d, p) ==
    ListedConditions(d, p) /\ ~ HasListedAllergen(d, p.allergies)

\* C22: the primary find returns only items that are not spicy for 'mild',
\* only spicy items for 'hot' and 'extra-hot', and for 'medium' (the value
\* an absent spice level defaults to) the items that meet the other
\* conditions whatever their spicy flag
C22_SpiceLevelInPrimaryFilter ==
    PrimaryFound =>
        /\ preferences.spiceLevel = "mild" =>
              \A i \in 1..Len(candidates) : ~ candidates[i].dietary.spicy
        /\ preferences.spiceLevel \in {"hot", "extra-hot"} =>
              \A i \in 1..Len(candidates) : candidates[i].dietary.spicy
        /\ preferences.spiceLevel = "medium" =>
              LET others == { d \in catalog : ApartFromSpice(d, preferences) }
              IN  /\ Range(candidates) \subseteq others
                  /\ Cardinality(others) <= Limit => Range(candidates) = others

\* 'extra-hot' over a catalog holding a spicy and a not spicy item that
\* both meet the other conditions: only the spicy one is found
C22_Witness ==
    /\ PrimaryFound
    /\ preferences.spiceLevel = "extra-hot"
    /\ candidates # << >>
    /\ \E d \in catalog : ApartFromSpice(d, preferences) /\ ~ d.dietary.spicy
    /\ \E d \in catalog : ApartFromSpice(d, preferences) /\ d.dietary.spicy

-----------------------------------------------------------------------------
(* Analytics requests that interleave                                       *)

\* the properties of the cache that hold results
Slots == { Slot(path) : path \in CachedPaths }

\* lastUpdated is set although no result is cached
UpdatedButEmpty ==
    /\ analyticsCache.lastUpdated # 0
    /\ \A slot \in Slots : analyticsCache[slot] = Null

\* C23: of the requests that are in their handlers at the same time, to the
\* same endpoint or not, each can complete whatever the others do; one that
\* completes answers with the result it computed and leaves that result in
\* the cache with lastUpdated set; lastUpdated is never set while every
\* cached entry is null
C23_InterleavedRecomputation ==
    /\ [] ( \A r \in 1..Len(reqs) : ENABLED HandlerCompletes(r) )
    /\ [] ~ UpdatedButEmpty
    /\ [][ \A r \in 1..Len(reqs) :
             ( /\ reqs' = Without(reqs, r)
               /\ sent'.path = reqs[r].path
               /\ sent'.status = 200 )
             => /\ ~ sent'.cached
                /\ sent'.data = Aggregate(reqs[r].path, orderStore)
                /\ analyticsCache'[Slot(reqs[r].path)] = sent'.data
                /\ analyticsCache'.lastUpdated = now
                /\ \A slot \in Slots \ { Slot(reqs[r].path) } :
                      analyticsCache'[slot] = analyticsCache[slot] ]_vars

\* two requests to one endpoint were in their handlers together: one has
\* answered and cached its result, the other, which arrived before that, is
\* still in its handler and will compute from changed order data
C23_Witness ==
    /\ Len(reqs) = 1
    /\ ComputedAndCached(reqs[1].path)
    /\ reqs[1].arrived < analyticsCache.lastUpdated
    /\ sent.data # Aggregate(reqs[1].path, orderStore)

\* C24: a request answered from the cache gets a result that the handler of
\* its own endpoint computed and that the cache holds for that endpoint;
\* never an empty payload, and never a hit only because another endpoint
\* refreshed the cache
C24_HitIsOwnStoredResult ==
    [][ \A path \in CachedPaths :
          ( sent' # sent /\ sent'.cached /\ sent'.path = path )
          => /\ sent'.data = analyticsCache[Slot(path)]
             /\ sent'.data.path = path ]_vars

-----------------------------------------------------------------------------
(* Orders under interleaved requests                                        *)

ItemRoutes == {"POST /orders/:id/items", "DELETE /orders/:id/items/:itemIndex"}

\* request c is refused in this step because its order is not pending
RefusedAsNotPending(c) ==
    /\ calls[c].pc # "done"
    /\ calls'[c].pc = "done"
    /\ calls'[c].route \in ItemRoutes
    /\ calls'[c].error = << "Cannot modify order that is not pending" >>

\* C25: under any interleaving the items of an order change only while the
\* stored status of the order is 'pending', and a request to add or remove
\* an item of an order that is not pending is answered 400 and changes
\* nothing of the stored orders
C25_ItemsChangeOnlyWhilePending ==
    [][ /\ \A o \in 1..Len(orders) :
             orders'[o].items # orders[o].items => orders[o].status = "pending"
        /\ \A c \in 1..MaxCalls :
             RefusedAsNotPending(c) => calls'[c].status = 400 /\ orders' = orders ]_vars

-----------------------------------------------------------------------------
(* The routes that set the status of an order                               *)

\* enum of the status path of orderSchema, and of updateOrderSchema
OrderStatuses ==
    {"pending", "confirmed", "preparing", "ready", "delivered", "cancelled"}

\* the status values requests carry: none, three of the enum, one outside
RequestedStatuses == {"", "confirmed", "delivered", "cancelled", "shipped"}

\* PATCH /orders/:id/status arrives: the body is checked, the order is read;
\* updateStatus sets the status and calls save()
StatusLoads(c) ==
    /\ Free(c)
    /\ \E o \in 0..Len(orders), st \in RequestedStatuses :
          LET call == [NoCall EXCEPT !.route = "PATCH /orders/:id/status", !.order = o]
          IN  calls' = [calls EXCEPT ![c] =
                IF st = ""
                  THEN Answered(call, 400, << "Status is required" >>)
                ELSE IF ~ Stored(o)
                  THEN Answered(call, 404, << "Order not found" >>)
                ELSE [call EXCEPT !.pc = "save",
                                  !.loaded = [orders[o] EXCEPT !.status = st]]]
    /\ UNCHANGED << menu, orders, outsideOrdering >>

\* PATCH /orders/:id/status: the save validates the status against the enum
\* and is written, or it throws and the catch block answers 500
StatusSaves(c) ==
    /\ calls[c].route = "PATCH /orders/:id/status" /\ calls[c].pc = "save"
    /\ IF calls[c].loaded.status \notin OrderStatuses
         THEN /\ calls' = [calls EXCEPT ![c] =
                             Answered(calls[c], 500, << "Failed to update order status" >>)]
              /\ UNCHANGED orders
         ELSE /\ orders' = [orders EXCEPT ![calls[c].order] =
                              DocumentSave(@, calls[c].loaded, {"status"})]
              /\ calls' = [calls EXCEPT ![c] = Answered(calls[c], 200, << >>)]
    /\ UNCHANGED << menu, outsideOrdering >>

\* PUT /orders/:id: the body is validated against updateOrderSchema, and
\* findByIdAndUpdate sets the keys of the body
UpdateOrder(c) ==
    /\ Free(c)
    /\ \E o \in 0..Len(orders), st \in RequestedStatuses :
          LET call == [NoCall EXCEPT !.route = "PUT /orders/:id", !.order = o]
          IN  IF st \notin OrderStatuses
                THEN /\ calls' = [calls EXCEPT ![c] =
                                    Answered(call, 400, << "Validation error" >>)]
                     /\ UNCHANGED orders
              ELSE IF ~ Stored(o)
                THEN /\ calls' = [calls EXCEPT ![c] =
                                    Answered(call, 404, << "Order not found" >>)]
                     /\ UNCHANGED orders
              ELSE /\ calls' = [calls EXCEPT ![c] = Answered(call, 200, << >>)]
                   /\ orders' = [orders EXCEPT ![o].status = st]
    /\ UNCHANGED << menu, outsideOrdering >>

NextStatus ==
    \/ \E c \in 1..MaxCalls : CancelLoads(c)
    \/ \E c \in 1..MaxCalls : CancelSaves(c)
    \/ \E c \in 1..MaxCalls : StatusLoads(c)
    \/ \E c \in 1..MaxCalls : StatusSaves(c)
    \/ \E c \in 1..MaxCalls : UpdateOrder(c)

SpecStatus == InitOrdering /\ [][NextStatus]_vars

\* request c to the cancel route arrives in this step
CancelArrives(c) ==
    /\ calls[c].pc = "idle"
    /\ calls'[c].route = "PATCH /orders/:id/cancel"

\* C26: no step takes an order from 'delivered' to 'cancelled': the cancel
\* route answers 400 for a delivered order, and no other route writes
\* 'cancelled' over 'delivered'
C26_DeliveredNeverCancelled ==
    [][ /\ \A o \in 1..Len(orders) :
             orders[o].status = "delivered" => orders'[o].status # "cancelled"
        /\ \A c \in 1..MaxCalls :
             ( /\ CancelArrives(c)
               /\ Stored(calls'[c].order)
               /\ orders[calls'[c].order].status = "delivered" )
             => calls'[c].status = 400 /\ orders' = orders ]_vars

-----------------------------------------------------------------------------
(* Totals, creation and the item list of stored orders                      *)

\* price x quantity plus the customization prices, over the items
ItemsTotal(items) ==
    Sum([i \in 1..Len(items) |->
           items[i].price * items[i].quantity + Sum(items[i].customization)])

\* subtotal, tax (8% of the subtotal, in hundredths of a cent) and total of
\* an order agree with its items and its tip
TotalsAgree(o) ==
    /\ o.subtotal = ItemsTotal(o.items)
    /\ o.tax * 100 = o.subtotal * 100 * 8
    /\ o.total = o.subtotal * 100 + o.tax + o.tip * 100

\* C27: every stored order, after its creation and after every successful
\* addItem and removeItem, has a subtotal that is the sum of its items, a
\* tax of 8% of the subtotal and a total of subtotal + tax + tip; what the
\* creating route computes is what calculateTotals computes
C27_TotalsAgreeWithItems ==
    /\ \A o \in 1..Len(orders) : TotalsAgree(orders[o])
    /\ \A o \in 1..Len(orders) : calculateTotals(orders[o]) = orders[o]

CreateRoute(c) == calls[c].route = "POST /orders"

\* request c to POST /orders has stored its order
HasStored(c) == CreateRoute(c) /\ calls[c].order # 0

\* the item the validation loop of request c looks up in this step
LookedUp(c) ==
    calls'[c].body[IF calls[c].pc = "idle" THEN 1 ELSE calls[c].k].menuItemId

\* request c to POST /orders looks an item up in this step
LooksUp(c) ==
    /\ calls[c].pc \in {"idle", "check"}
    /\ calls'[c] # calls[c]
    /\ calls'[c].route = "POST /orders"
    /\ calls'[c].body # << >>

\* C28: a request to create an order that names an item that does not exist
\* is answered 404, one that names an item whose availability is not
\* 'available' (be it 'limited') is answered 400, and such a request stores
\* no order and raises no popularity: the stored orders and the
\* popularities come only from the requests that passed every lookup
C28_CreationAllOrNothing ==
    /\ [][ \A c \in 1..MaxCalls :
             LooksUp(c) =>
               /\ ~ menu[LookedUp(c)].exists => calls'[c].status = 404
               /\ ( menu[LookedUp(c)].exists
                    /\ menu[LookedUp(c)].availability # "available" )
                  => calls'[c].status = 400
               /\ calls'[c].status \in {400, 404} =>
                     orders' = orders /\ menu' = menu ]_vars
    /\ [] \A c \in 1..MaxCalls :
            (CreateRoute(c) /\ calls[c].status \in {400, 404}) => ~ HasStored(c)
    /\ [] ( Len(orders) = 1 + Cardinality({ c \in 1..MaxCalls : HasStored(c) }) )
    /\ [] \A id \in MenuIds :
            menu[id].exists =>
               menu[id].popularity =
                  Sum([c \in 1..MaxCalls |->
                         IF HasStored(c) THEN Increments(c, id) ELSE 0])

\* an item was set to 'limited' and a request to create an order with it
\* was answered 400: no order is stored beside the first, no popularity
\* has changed
C28_Witness ==
    /\ menu["soup"].availability = "limited"
    /\ \E c \in 1..MaxCalls :
          /\ CreateRoute(c)
          /\ calls[c].status = 400
          /\ calls[c].body # << >>
          /\ calls[c].body[1].menuItemId = "soup"
    /\ Len(orders) = 1
    /\ \A id \in MenuIds : menu[id].popularity = 0

\* request c to the remove route is answered in this step with the error
\* removeItem throws
RefusedAsInvalidIndex(c) ==
    /\ calls[c].pc # "done"
    /\ calls'[c].pc = "done"
    /\ calls'[c].error = << "Invalid item index" >>

\* C29: every stored order holds at least one item, whatever orders are
\* created and whatever items are added and removed; a remove request with
\* an index outside 0..items.length-1 fails with 'Invalid item index' and
\* leaves the order as it is
C29_OrdersNeverEmpty ==
    /\ [] \A o \in 1..Len(orders) : Len(orders[o].items) >= 1
    /\ [][ \A c \in 1..MaxCalls :
             /\ RefusedAsInvalidIndex(c) => orders' = orders
             /\ ( /\ calls[c].pc = "idle"
                  /\ calls'[c].route = "DELETE /orders/:id/items/:itemIndex"
                  /\ Stored(calls'[c].order)
                  /\ orders[calls'[c].order].status = "pending"
                  /\ calls'[c].itemIndex >= Len(orders[calls'[c].order].items) )
                => RefusedAsInvalidIndex(c) ]_vars

-----------------------------------------------------------------------------
(* Ratings                                                                  *)

\* the accepted rating submissions for item id
Accepted(id) ==
    { c \in 1..MaxCalls : /\ calls[c].route = "POST /menu/:id/rate"
                          /\ calls[c].status = 200
                          /\ calls[c].item = id }

\* C30: after n accepted submissions, one after the other or interleaved,
\* rating.count of the item is n and rating.average is the mean of the n
\* ratings, hence within [1, 5]; a submission outside 1..5 is answered 400
\* and leaves the rating as it is
C30_RatingIsMeanOfSubmissions ==
    /\ [] \A id \in MenuIds :
            menu[id].exists =>
               LET n == Cardinality(Accepted(id))
                   total == Sum([c \in 1..MaxCalls |->
                                   IF c \in Accepted(id) THEN calls[c].rating ELSE 0])
               IN  /\ menu[id].rating.count = n
                   /\ n > 0 =>
                        /\ menu[id].rating.average = Fraction(total, n)
                        /\ menu[id].rating.average.den <= menu[id].rating.average.num
                        /\ menu[id].rating.average.num <= 5 * menu[id].rating.average.den
    /\ [][ \A c \in 1..MaxCalls :
             ( /\ calls[c].pc = "idle"
               /\ calls'[c].route = "POST /menu/:id/rate"
               /\ (calls'[c].rating < 1 \/ calls'[c].rating > 5) )
             => /\ calls'[c].status = 400
                /\ menu' = menu ]_vars

=============================================================================
